---------------------------- MODULE Spec2Model ----------------------------
(***************************************************************************)
(* A model of two tools of metricq-tools:                                  *)
(*                                                                         *)
(*   - check (src/metricq_tools/check.py): the fan-out of one history      *)
(*     request per metric through asyncio.as_completed, the per-request    *)
(*     classification in check_metric, the progress bar and the report.    *)
(*   - discover (src/metricq_tools/discover.py): the broadcast, the        *)
(*     response queue filled by on_discover and the async generator        *)
(*     responses() that reads it under async_timeout.timeout.              *)
(*                                                                         *)
(* Both run on one asyncio event loop each: a step of the model is one     *)
(* run of a task or callback from one suspension point to the next.        *)
(***************************************************************************)
EXTENDS Integers, Sequences, FiniteSets, TLC

(***************************************************************************)
(* Bounds of the model and constants of the program.                       *)
(***************************************************************************)
\* the largest number of metrics get_metrics returns
MaxMetrics == 2
\* seconds that pass in one step of the clock
TickLen == 30
\* the clock makes at most this many steps
MaxTicks == 2
MaxTime == MaxTicks * TickLen
\* check.py:13
_TIMEOUT == 60
\* the clients that answer a discover broadcast
MaxTokens == 2
\* the most responses on_discover is called with
MaxResponses == 3
\* the most data points a sink receives
MaxValues == 4
\* the most data points of one data message
MaxChunk == 2
\* the most data messages of inspect whose body fails to parse
MaxFailures == 1
\* the most data points the sink of summary receives
MaxSummaryValues == 2
\* the most data points the subscription of energy buffers
MaxEnergyValues == 3
\* the last reading of the clock of energy, in seconds
MaxClock == 3
\* the longest name of a member of a choice enum
MaxNameLen == 3
\* the longest string given to ChoiceParam.convert
MaxInputLen == 3
\* the most metrics spy is given
MaxSpyMetrics == 3
\* the most metrics whose metadata check_for_dead is given
MaxAgeMetrics == 2
\* the most rows sacct prints, and the most hosts of a job
MaxJobs == 2
MaxHosts == 2

Metrics == 1..MaxMetrics

\* descriptions a HistoryError may carry
ErrorDetails == {"no data", "malformed"}

\* the value an outcome entry has for a description it does not hold
NoDetail == "-"

\* timestamps the database may report for the last value of a metric:
\* the epoch, or a time the clock never reaches
ResultTimestamps == {0, MaxTime + TickLen}

VARIABLES
    \* ---- check ----
    infinite,           \* --infinite/--no-infinite
    dead,               \* --dead/--no-dead
    pc,                 \* where main() / check() stands
    metrics,            \* the metrics get_metrics returned
    task,               \* per metric: the state of its check_metric task
    startedAt,          \* per metric: when its request (and timeout) began
    outcome,            \* per metric: the branch of check_metric it took
    result,             \* per metric: what history_last_value gave, and when
    done,               \* as_completed's queue of finished tasks
    bar,                \* the position of click.progressbar
    dead_metrics,       \* list of (age, timestamp, metric)
    no_value_metrics,
    timeout_metrics,
    error_metrics,
    bad_metrics,        \* check_for_infinite: metrics with a non-finite aggregate
    log,                \* what went to the logger
    echo,               \* what was printed (click.echo / print), in order
    raised,             \* the exception that left main(), "none" if none did
    now,                \* the clock, in seconds
    \* ---- discover ----
    timeout,            \* --timeout: "None" (the default) or "finite"
    format,             \* --format: "Json" or "Pretty"
    diff,               \* --diff given
    previous,           \* the snapshot json.load(diff) returns: token -> response
    ignored_events,     \* --ignore: the set of ignored events
    d_pc,               \* where discover() stands
    response_queue,     \* MetricQDiscover._response_queue
    getter,             \* the future Queue.get() waits on
    must_cancel,        \* Task._must_cancel of the task running discover()
    timer,              \* the timer of async_timeout.timeout
    yielded,            \* what responses() has yielded, in order
    printed,            \* what discover() has printed, in order
    stops,              \* how often client.stop() was called
    d_raised,           \* the exception that left discover(), "none" if none did
    delivered,          \* how many responses on_discover has been called with
    on_time,            \* the responses queued before the timer fired
    \* ---- inspect ----
    i_pc,               \* where the sink stands
    tokens,             \* InspectSink.tokens: messages per sender
    chunk_sizes,        \* InspectSink.chunk_sizes
    chunk,              \* the data points of the message being handled
    timestamps,         \* InspectSink.timestamps
    last_timestamp,     \* InspectSink.last_timestamp: <<>> is None, <<t>> is t
    intervals,          \* InspectSink.intervals
    values,             \* InspectSink.values
    options,            \* the flags the sink was made with
    i_log,              \* what the sink sent to the logger
    i_echo,             \* what the sink printed, in order
    \* ---- summary ----
    s_pc,               \* where SummarySink.connect() stands
    s_metrics,          \* the metrics of the command line
    s_options,          \* the flags the sink was made with
    s_proc,             \* the command: "none", "running" or "exited"
    s_data,             \* the data connection: "no", "open" or "closed"
    s_signalled,        \* on_signal has run
    s_stops,            \* how often stop() was called
    s_tokens,           \* SummarySink.tokens
    s_chunk_sizes,      \* SummarySink.chunk_sizes, per metric
    s_chunk,            \* the message being handled: its metric and data points
    s_timestamps,       \* SummarySink.timestamps, per metric
    s_last_timestamp,   \* SummarySink.last_timestamp, per metric
    s_intervals,        \* SummarySink.intervals, per metric
    s_values,           \* SummarySink.values, per metric
    s_echo,             \* what the sink printed, in order
    s_raised,           \* the exception that left connect(), "none" if none did
    \* ---- energy ----
    e_pc,               \* where collect_energy() stands
    e_now,              \* the clock, in seconds
    unit,               \* subscriber.metadata[metric].get("unit", "")
    time_before,
    time_after,
    e_queue,            \* the data points the subscription has buffered
    e_seen,             \* the data points collect_data() has yielded, in order
    value_sum,
    value_count,
    e_log,              \* what went to the logger
    e_echo,             \* what was printed, in order
    e_raised,           \* the exception that left collect_energy(), "none" if none did
    \* ---- the parameter types of utils.py ----
    p_pc,               \* "input" before convert() is called, "converted" after
    p_param,            \* the parameter type: "Choice", "Duration" or "Timestamp"
    p_enum,             \* the names of the members of the enum of a ChoiceParam
    p_value,            \* the value convert() is called with
    p_result,           \* what convert() returned or raised
    \* ---- spy ----
    y_pc,               \* where MetricQSpy.spy() stands
    y_format,           \* output_format: "Json" or "Pretty"
    y_historic,         \* metadata.get("historic", False) of the metrics, in the order of the result
    y_index,            \* the metric the loop is at
    y_request,          \* the request of each metric: "none", "pending", "answered", "timed out"
    y_response,         \* the response to each request: "none", "in flight", "delivered"
    y_sender,           \* message.app_id of the response to each request
    y_data_locations,   \* MetricQSpy._data_locations
    y_results,          \* results: the location of every metric handled in Json mode
    y_echo,             \* what spy() printed, in order
    y_stops,            \* how often stop() was called
    \* ---- the tolerances of check_for_dead ----
    a_pc,               \* "build" before the requests are built, then "started" or "raised"
    a_metadata,         \* metrics: the metadata of every metric
    a_allowed,          \* the allowed_age each request was built with
    a_raised,           \* the exception that left check_for_dead, "none" if none did
    \* ---- slurm ----
    l_pc,               \* where slurm_energy() stands
    l_jobs,             \* jobs_data: the rows of sacct, parsed
    l_task,             \* collect_energy of each job: "new", "waiting" or "done"
    l_results,          \* the aggregates returned so far, per job and host
    l_energy,           \* SlurmJobEntry.energy of each job
    l_table,            \* table_data: the jobs of the printed table, in order
    l_raised            \* the exception that left slurm_energy(), "none" if none did

checkVars == <<infinite, dead, pc, metrics, task, startedAt, outcome, result, done, bar,
               dead_metrics, no_value_metrics, timeout_metrics, error_metrics,
               bad_metrics, log, echo, raised, now>>

discoverVars == <<timeout, format, diff, previous, ignored_events, d_pc, response_queue, getter, must_cancel,
                  timer, yielded, printed, stops, d_raised, delivered, on_time>>

inspectVars == <<i_pc, tokens, chunk_sizes, chunk, timestamps, last_timestamp,
                 intervals, values, options, i_log, i_echo>>

accumulators == <<s_tokens, s_chunk_sizes, s_timestamps, s_last_timestamp, s_intervals,
                  s_values>>

summaryVars == <<s_pc, s_metrics, s_options, s_proc, s_data, s_signalled, s_stops,
                 s_chunk, accumulators, s_echo, s_raised>>

energyVars == <<e_pc, e_now, unit, time_before, time_after, e_queue, e_seen, value_sum,
                value_count, e_log, e_echo, e_raised>>

paramVars == <<p_pc, p_param, p_enum, p_value, p_result>>

spyVars == <<y_pc, y_format, y_historic, y_index, y_request, y_response, y_sender, y_data_locations, y_results, y_echo, y_stops>>

ageVars == <<a_pc, a_metadata, a_allowed, a_raised>>

slurmVars == <<l_pc, l_jobs, l_task, l_results, l_energy, l_table, l_raised>>

vars == <<checkVars, discoverVars, inspectVars, summaryVars, energyVars, paramVars, spyVars, ageVars, slurmVars>>

\* what the actions of one tool leave alone: the other tools
notCheck == <<discoverVars, inspectVars, summaryVars, energyVars, paramVars, spyVars, ageVars, slurmVars>>
notDiscover == <<checkVars, inspectVars, summaryVars, energyVars, paramVars, spyVars, ageVars, slurmVars>>
notInspect == <<checkVars, discoverVars, summaryVars, energyVars, paramVars, spyVars, ageVars, slurmVars>>
notSummary == <<checkVars, discoverVars, inspectVars, energyVars, paramVars, spyVars, ageVars, slurmVars>>
notEnergy == <<checkVars, discoverVars, inspectVars, summaryVars, paramVars, spyVars, ageVars, slurmVars>>
notParam == <<checkVars, discoverVars, inspectVars, summaryVars, energyVars, spyVars, ageVars, slurmVars>>
notSpy == <<checkVars, discoverVars, inspectVars, summaryVars, energyVars, paramVars, ageVars, slurmVars>>
notAge == <<checkVars, discoverVars, inspectVars, summaryVars, energyVars, paramVars, spyVars, slurmVars>>
notSlurm == <<checkVars, discoverVars, inspectVars, summaryVars, energyVars, paramVars, spyVars, ageVars>>

(***************************************************************************)
(* Helpers.                                                                *)
(***************************************************************************)
\* what the request of a metric came to: the branch of check_metric taken and,
\* for a HistoryError, the description the error carried
Outcome(kind, detail) == [kind |-> kind, detail |-> detail]
NoOutcome == Outcome("none", NoDetail)

\* what the request of a metric gave: the timestamp of the last value
\* (NoTimestamp when it gave none), the clock when the request was sent and
\* the clock when it ended
NoTimestamp == -1
Result(timestamp, requested, at) ==
    [timestamp |-> timestamp, requested |-> requested, at |-> at]
NoResult == Result(NoTimestamp, -1, -1)

LogEntry(level, event, metric, detail) ==
    [level |-> level, event |-> event, metric |-> metric, detail |-> detail]

\* the elements of a sequence
Range(s) == {s[i] : i \in 1..Len(s)}

\* lexicographic order on tuples of integers of the same length
RECURSIVE TupleLess(_, _)
TupleLess(a, b) ==
    IF Len(a) = 0 \/ Len(b) = 0 THEN Len(a) < Len(b)
    ELSE IF a[1] # b[1] THEN a[1] < b[1]
    ELSE TupleLess(Tail(a), Tail(b))

\* mutant: the tuples are sorted by their last component, the metric
RECURSIVE SortedByMetric(_)
SortedByMetric(S) ==
    IF S = {} THEN <<>>
    ELSE LET least == CHOOSE x \in S : \A y \in S : x[Len(x)] <= y[Len(y)]
         IN  <<least>> \o SortedByMetric(S \ {least})

\* sorted(S) for a set of tuples of integers
RECURSIVE SortedTuples(_)
SortedTuples(S) ==
    IF S = {} THEN <<>>
    ELSE LET least == CHOOSE x \in S : \A y \in S \ {x} : TupleLess(x, y)
         IN  <<least>> \o SortedTuples(S \ {least})

\* sorted(S) for a set of metric identifiers
RECURSIVE sorted(_)
sorted(S) ==
    IF S = {} THEN <<>>
    ELSE LET least == CHOOSE x \in S : \A y \in S : x <= y
         IN  <<least>> \o sorted(S \ {least})

Reverse(s) == [i \in 1..Len(s) |-> s[Len(s) + 1 - i]]

(***************************************************************************)
(* The metadata get_metrics returns with metadata=True, and the tolerance  *)
(* check_for_dead derives from it (seconds).                               *)
(***************************************************************************)
\* a value of the metadata: a number, a string that Timedelta.from_string
\* accepts (value: its seconds) or refuses, or a value of another type
Number(x) == [type |-> "number", value |-> x]
DurationString(x) == [type |-> "str", value |-> x]
BadString == [type |-> "bad str", value |-> 0]
OtherValue == [type |-> "other", value |-> 0]

\* the metadata get_metrics returns for the metrics of the check; a dictionary
\* is a function of its keys: metric 1 has a rate of 1 Hz, metric 2 an interval
\* of 10 s, every other metric neither
Metadata(m) ==
    CASE m = 1 -> [rate |-> Number(1)]
      [] m = 2 -> [interval |-> Number(10)]
      [] OTHER -> [unit |-> Number(0)]

\* what compute_allowed_age comes to: the tolerance in seconds, or an exception
AllowedAge(tolerance) == [raised |-> "none", tolerance |-> tolerance]
AgeRaised(exception) == [raised |-> exception, tolerance |-> 0]

\* compute_allowed_age; 1 / rate is exact in whole seconds for the rates of
\* the model (1 and -1)
compute_allowed_age(metadata) ==
    LET tolerance == 1
    IN  IF "rate" \in DOMAIN metadata
        THEN IF metadata.rate.type # "number"
             THEN AllowedAge(tolerance)
             ELSE IF metadata.rate.value = 0
                  THEN AgeRaised("ZeroDivisionError")
                  ELSE AllowedAge(tolerance + (1 \div metadata.rate.value))
        ELSE IF "interval" \in DOMAIN metadata
             THEN CASE metadata.interval.type = "str" ->
                         AllowedAge(tolerance + metadata.interval.value)
                    [] metadata.interval.type = "bad str" -> AgeRaised("ValueError")
                    [] metadata.interval.type = "number" ->
                         AllowedAge(tolerance + metadata.interval.value)
                    [] OTHER -> AllowedAge(tolerance)
             ELSE AllowedAge(tolerance)

(***************************************************************************)
(* The outcome set the collections of a fan-out amount to: one entry per   *)
(* member, keyed by the metric.  The sets hold the metric alone; the       *)
(* description of a HistoryError goes to the log and is not kept.          *)
(***************************************************************************)
OutcomeSet ==
    {[metric |-> e[3], kind |-> "dead", detail |-> NoDetail] : e \in Range(dead_metrics)}
    \cup {[metric |-> m, kind |-> "no_value", detail |-> NoDetail] : m \in no_value_metrics}
    \cup {[metric |-> m, kind |-> "timeout", detail |-> NoDetail] : m \in timeout_metrics}
    \cup {[metric |-> m, kind |-> "error", detail |-> NoDetail] : m \in error_metrics}
    \cup {[metric |-> m, kind |-> "non_finite", detail |-> NoDetail] : m \in bad_metrics}

(***************************************************************************)
(* check: Init.                                                            *)
(***************************************************************************)
CheckStart ==
    /\ infinite \in BOOLEAN
    /\ dead \in BOOLEAN
    /\ pc = "main"
    /\ metrics = {}
    /\ task = [m \in Metrics |-> "none"]
    /\ startedAt = [m \in Metrics |-> 0]
    /\ outcome = [m \in Metrics |-> NoOutcome]
    /\ result = [m \in Metrics |-> NoResult]
    /\ done = <<>>
    /\ bar = 0
    /\ dead_metrics = <<>>
    /\ no_value_metrics = {}
    /\ timeout_metrics = {}
    /\ error_metrics = {}
    /\ bad_metrics = {}
    /\ log = {}
    /\ echo = <<>>
    /\ raised = "none"
    /\ now = 0

collections == <<dead_metrics, no_value_metrics, timeout_metrics, error_metrics, bad_metrics>>
tasks == <<task, startedAt, outcome, result, done>>

(***************************************************************************)
(* main() and check().                                                     *)
(***************************************************************************)
main ==
    /\ pc = "main"
    /\ IF ~(infinite \/ dead)
       THEN /\ log' = log \cup {LogEntry("error", "Nothing to do.", 0, NoDetail)}
            /\ pc' = "exit"
       ELSE /\ pc' = "lookup"
            /\ log' = log
    /\ UNCHANGED <<notCheck, infinite, dead, metrics, tasks, bar, collections, echo, raised, now>>

\* async with client; metrics = await client.get_metrics(...)
check ==
    /\ pc = "lookup"
    /\ \E n \in 0..MaxMetrics : metrics' = 1..n
    /\ pc' = IF infinite THEN "inf_requests" ELSE "dead_requests"
    /\ UNCHANGED <<notCheck, infinite, dead, tasks, bar, collections, log, echo, raised, now>>

\* mutant: the failure of the lookup is noted and the checks go on
check_fails_goes_on ==
    /\ pc = "lookup"
    /\ raised' = "lookup failed"
    /\ metrics' = Metrics
    /\ pc' = IF infinite THEN "inf_requests" ELSE "dead_requests"
    /\ UNCHANGED <<notCheck, infinite, dead, tasks, bar, collections, log, echo, now>>

\* connecting or get_metrics fails: nothing in check() catches it
check_fails ==
    /\ pc = "lookup"
    /\ raised' = "lookup failed"
    /\ pc' = "exit"
    /\ UNCHANGED <<notCheck, infinite, dead, metrics, tasks, bar, collections, log, echo, now>>

(***************************************************************************)
(* The event loop.  asyncio.as_completed wraps every coroutine of the list *)
(* in a task at once; the loop runs the first step of every task that is   *)
(* ready before it polls for responses and timers.                         *)
(***************************************************************************)
InLoop == pc \in {"inf_loop", "dead_loop"}

\* mutant: the requests are awaited one after the other, each started only when
\* every earlier one has finished
StartableOneAtATime(m) ==
    /\ task[m] = "scheduled"
    /\ \A k \in metrics : k < m => task[k] = "done"

Startable(m) == task[m] = "scheduled"

IOReady == \A m \in metrics : ~Startable(m)

\* the first step of a check_metric task: the request is sent, its timeout starts
StartTask(m) ==
    /\ InLoop
    /\ m \in metrics
    /\ Startable(m)
    /\ task' = [task EXCEPT ![m] = "pending"]
    /\ startedAt' = [startedAt EXCEPT ![m] = now]
    /\ UNCHANGED <<notCheck, infinite, dead, pc, metrics, outcome, result, done, bar,
                   collections, log, echo, raised, now>>

\* time passes while the loop waits for responses and timers
Tick ==
    /\ InLoop
    /\ IOReady
    /\ now + TickLen <= MaxTime
    /\ now' = now + TickLen
    /\ UNCHANGED <<notCheck, infinite, dead, pc, metrics, tasks, bar, collections, log, echo, raised>>

\* the task of m finishes: as_completed's callback queues it
SettleAt(m, kind, detail, timestamp) ==
    /\ task' = [task EXCEPT ![m] = "done"]
    /\ startedAt' = [startedAt EXCEPT ![m] = 0]
    /\ outcome' = [outcome EXCEPT ![m] = Outcome(kind, detail)]
    /\ result' = [result EXCEPT ![m] = Result(timestamp, startedAt[m], now)]
    /\ done' = Append(done, m)

\* the same for a request that gave no timestamp
Settle(m, kind, detail) == SettleAt(m, kind, detail, NoTimestamp)

Pending(m) ==
    /\ m \in metrics
    /\ task[m] = "pending"
    /\ IOReady

\* mutant: the timeout is not waited for
TimedOutAtOnce(m) == now >= startedAt[m]

TimedOut(m) == now - startedAt[m] >= _TIMEOUT

(***************************************************************************)
(* check_for_dead.                                                         *)
(***************************************************************************)
\* requests = [...]; asyncio.as_completed(requests): every request becomes a task
check_for_dead_requests ==
    /\ pc = "dead_requests"
    /\ task' = [m \in Metrics |-> IF m \in metrics THEN "scheduled" ELSE "none"]
    /\ startedAt' = [m \in Metrics |-> 0]
    /\ outcome' = [m \in Metrics |-> NoOutcome]
    /\ result' = [m \in Metrics |-> NoResult]
    /\ done' = <<>>
    /\ bar' = 0
    /\ dead_metrics' = <<>>
    /\ no_value_metrics' = {}
    /\ timeout_metrics' = {}
    /\ error_metrics' = {}
    /\ pc' = "dead_loop"
    /\ UNCHANGED <<notCheck, infinite, dead, metrics, bad_metrics, log, echo, raised, now>>

\* mutant: the age of the last value is taken when the request is sent, not
\* when its response has arrived
check_metric_result_age_at_request(m) ==
    /\ pc = "dead_loop"
    /\ Pending(m)
    /\ \/ /\ no_value_metrics' = no_value_metrics \cup {m}
          /\ Settle(m, "no_value", NoDetail)
          /\ UNCHANGED <<dead_metrics, log>>
       \/ \E timestamp \in ResultTimestamps :
            LET age == startedAt[m] - timestamp
            IN  IF age < 0
                THEN /\ log' = log \cup {LogEntry("error", "Negative age", m, NoDetail)}
                     /\ SettleAt(m, "negative", NoDetail, timestamp)
                     /\ UNCHANGED <<dead_metrics, no_value_metrics>>
                ELSE IF age > compute_allowed_age(Metadata(m)).tolerance
                THEN /\ dead_metrics' = Append(dead_metrics, <<age, timestamp, m>>)
                     /\ SettleAt(m, "dead", NoDetail, timestamp)
                     /\ UNCHANGED <<no_value_metrics, log>>
                ELSE /\ SettleAt(m, "alive", NoDetail, timestamp)
                     /\ UNCHANGED <<dead_metrics, no_value_metrics, log>>
    /\ UNCHANGED <<notCheck, infinite, dead, pc, metrics, bar, timeout_metrics,
                   error_metrics, bad_metrics, echo, raised, now>>

\* history_last_value returned: None, or a value with a timestamp
check_metric_result(m) ==
    /\ pc = "dead_loop"
    /\ Pending(m)
    /\ \/ /\ no_value_metrics' = no_value_metrics \cup {m}      \* result is None
          /\ Settle(m, "no_value", NoDetail)
          /\ UNCHANGED <<dead_metrics, log>>
       \/ \E timestamp \in ResultTimestamps :
            LET age == now - timestamp
            IN  IF age < 0
                THEN /\ log' = log \cup {LogEntry("error", "Negative age", m, NoDetail)}
                     /\ SettleAt(m, "negative", NoDetail, timestamp)
                     /\ UNCHANGED <<dead_metrics, no_value_metrics>>
                ELSE IF age > compute_allowed_age(Metadata(m)).tolerance
                THEN /\ dead_metrics' = Append(dead_metrics, <<age, timestamp, m>>)
                     /\ SettleAt(m, "dead", NoDetail, timestamp)
                     /\ UNCHANGED <<no_value_metrics, log>>
                ELSE /\ SettleAt(m, "alive", NoDetail, timestamp)
                     /\ UNCHANGED <<dead_metrics, no_value_metrics, log>>
    /\ UNCHANGED <<notCheck, infinite, dead, pc, metrics, bar, timeout_metrics,
                   error_metrics, bad_metrics, echo, raised, now>>

\* mutant: the timeout is logged and not recorded
check_metric_timeout_unrecorded(m) ==
    /\ pc = "dead_loop"
    /\ Pending(m)
    /\ TimedOut(m)
    /\ log' = log \cup {LogEntry("debug", "TimeoutError", m, NoDetail)}
    /\ Settle(m, "timeout", NoDetail)
    /\ UNCHANGED <<notCheck, infinite, dead, pc, metrics, bar, collections, echo, raised, now>>

\* except asyncio.TimeoutError
check_metric_timeout(m) ==
    /\ pc = "dead_loop"
    /\ Pending(m)
    /\ TimedOut(m)
    /\ timeout_metrics' = timeout_metrics \cup {m}
    /\ log' = log \cup {LogEntry("debug", "TimeoutError", m, NoDetail)}
    /\ Settle(m, "timeout", NoDetail)
    /\ UNCHANGED <<notCheck, infinite, dead, pc, metrics, bar, dead_metrics,
                   no_value_metrics, error_metrics, bad_metrics, echo, raised, now>>

\* mutant: the HistoryError is not caught and leaves the loop
check_metric_error_propagates(m) ==
    /\ pc = "dead_loop"
    /\ Pending(m)
    /\ \E e \in ErrorDetails : Settle(m, "error", e)
    /\ raised' = "HistoryError"
    /\ pc' = "exit"
    /\ UNCHANGED <<notCheck, infinite, dead, metrics, bar, collections, log, echo, now>>

\* mutant: the handler of HistoryError also runs the handler of TimeoutError
check_metric_error_twice(m) ==
    /\ pc = "dead_loop"
    /\ Pending(m)
    /\ \E e \in ErrorDetails :
         /\ log' = log \cup {LogEntry("debug", "HistoryError", m, e)}
         /\ Settle(m, "error", e)
    /\ error_metrics' = error_metrics \cup {m}
    /\ timeout_metrics' = timeout_metrics \cup {m}
    /\ UNCHANGED <<notCheck, infinite, dead, pc, metrics, bar, dead_metrics,
                   no_value_metrics, bad_metrics, echo, raised, now>>

\* except metricq.exceptions.HistoryError as e
check_metric_error(m) ==
    /\ pc = "dead_loop"
    /\ Pending(m)
    /\ \E e \in ErrorDetails :
         /\ log' = log \cup {LogEntry("debug", "HistoryError", m, e)}
         /\ Settle(m, "error", e)
    /\ error_metrics' = error_metrics \cup {m}
    /\ UNCHANGED <<notCheck, infinite, dead, pc, metrics, bar, dead_metrics,
                   no_value_metrics, timeout_metrics, bad_metrics, echo, raised, now>>

\* mutant: the bar advances for successful requests only
check_for_dead_loop_success_only ==
    /\ pc = "dead_loop"
    /\ bar < Cardinality(metrics)
    /\ done # <<>>
    /\ done' = Tail(done)
    /\ bar' = IF outcome[Head(done)].kind \in {"timeout", "error"} THEN bar ELSE bar + 1
    /\ UNCHANGED <<notCheck, infinite, dead, pc, metrics, task, startedAt, outcome, result, collections,
                   log, echo, raised, now>>

\* mutant: for request in requests: await request (input order, not completion order)
check_for_dead_loop_in_order ==
    /\ pc = "dead_loop"
    /\ bar < Cardinality(metrics)
    /\ task[bar + 1] = "done"
    /\ done' = SelectSeq(done, LAMBDA m : m # bar + 1)
    /\ bar' = bar + 1
    /\ UNCHANGED <<notCheck, infinite, dead, pc, metrics, task, startedAt, outcome, result, collections,
                   log, echo, raised, now>>

\* for request in asyncio.as_completed(requests): await request; bar.update(1)
check_for_dead_loop ==
    /\ pc = "dead_loop"
    /\ bar < Cardinality(metrics)
    /\ done # <<>>
    /\ done' = Tail(done)
    /\ bar' = bar + 1
    /\ UNCHANGED <<notCheck, infinite, dead, pc, metrics, task, startedAt, outcome, result, collections,
                   log, echo, raised, now>>

\* mutant: the loop gives up at the first timeout
check_for_dead_loop_end_on_timeout ==
    /\ pc = "dead_loop"
    /\ bar = Cardinality(metrics) \/ timeout_metrics # {}
    /\ pc' = "dead_report"
    /\ UNCHANGED <<notCheck, infinite, dead, metrics, tasks, bar, collections, log, echo, raised, now>>

\* the loop is over: as_completed has yielded len(requests) times
check_for_dead_loop_end ==
    /\ pc = "dead_loop"
    /\ bar = Cardinality(metrics)
    /\ pc' = "dead_report"
    /\ UNCHANGED <<notCheck, infinite, dead, metrics, tasks, bar, collections, log, echo, raised, now>>

Line(group, items) == [group |-> group, items |-> items]

\* mutant: the run fails when a request timed out or failed
check_for_dead_report_fails_on_errors ==
    /\ pc = "dead_report"
    /\ echo' = echo
         \o (LET lines == SortedTuples(Range(dead_metrics))
             IN  [i \in 1..Len(lines) |->
                    Line("dead", <<lines[i][2], lines[i][3], lines[i][1]>>)])
         \o (IF no_value_metrics # {}
             THEN <<Line("no_value", sorted(no_value_metrics))>> ELSE <<>>)
         \o (IF timeout_metrics # {}
             THEN <<Line("timeout", sorted(timeout_metrics))>> ELSE <<>>)
         \o (IF error_metrics # {}
             THEN <<Line("error", sorted(error_metrics))>> ELSE <<>>)
    /\ raised' = IF timeout_metrics \cup error_metrics # {} THEN "SystemExit" ELSE raised
    /\ task' = [m \in Metrics |-> "none"]
    /\ outcome' = [m \in Metrics |-> NoOutcome]
    /\ result' = [m \in Metrics |-> NoResult]
    /\ bar' = 0
    /\ dead_metrics' = <<>>
    /\ no_value_metrics' = {}
    /\ timeout_metrics' = {}
    /\ error_metrics' = {}
    /\ pc' = "exit"
    /\ UNCHANGED <<notCheck, infinite, dead, metrics, startedAt, done, bad_metrics, log, now>>

check_for_dead_report ==
    /\ pc = "dead_report"
    /\ echo' = echo
         \o (LET lines == SortedTuples(Range(dead_metrics))
             IN  [i \in 1..Len(lines) |->
                    Line("dead", <<lines[i][2], lines[i][3], lines[i][1]>>)])
         \o (IF no_value_metrics # {}
             THEN <<Line("no_value", sorted(no_value_metrics))>> ELSE <<>>)
         \o (IF timeout_metrics # {}
             THEN <<Line("timeout", sorted(timeout_metrics))>> ELSE <<>>)
         \o (IF error_metrics # {}
             THEN <<Line("error", sorted(error_metrics))>> ELSE <<>>)
    \* the function returns: its locals are gone
    /\ task' = [m \in Metrics |-> "none"]
    /\ outcome' = [m \in Metrics |-> NoOutcome]
    /\ result' = [m \in Metrics |-> NoResult]
    /\ bar' = 0
    /\ dead_metrics' = <<>>
    /\ no_value_metrics' = {}
    /\ timeout_metrics' = {}
    /\ error_metrics' = {}
    /\ pc' = "exit"
    /\ UNCHANGED <<notCheck, infinite, dead, metrics, startedAt, done, bad_metrics, log, raised, now>>

(***************************************************************************)
(* check_for_infinite.                                                     *)
(***************************************************************************)
check_for_infinite_requests ==
    /\ pc = "inf_requests"
    /\ task' = [m \in Metrics |-> IF m \in metrics THEN "scheduled" ELSE "none"]
    /\ startedAt' = [m \in Metrics |-> 0]
    /\ outcome' = [m \in Metrics |-> NoOutcome]
    /\ result' = [m \in Metrics |-> NoResult]
    /\ done' = <<>>
    /\ bar' = 0
    /\ bad_metrics' = {}
    /\ pc' = "inf_loop"
    /\ UNCHANGED <<notCheck, infinite, dead, metrics, dead_metrics, no_value_metrics,
                   timeout_metrics, error_metrics, log, echo, raised, now>>

\* history_aggregate returned: is its minimum and maximum finite?
check_infinite_result(m) ==
    /\ pc = "inf_loop"
    /\ Pending(m)
    /\ \E finite \in BOOLEAN :
         IF ~finite
         THEN /\ bad_metrics' = bad_metrics \cup {m}
              /\ Settle(m, "non_finite", NoDetail)
         ELSE /\ bad_metrics' = bad_metrics
              /\ Settle(m, "finite", NoDetail)
    /\ UNCHANGED <<notCheck, infinite, dead, pc, metrics, bar, dead_metrics,
                   no_value_metrics, timeout_metrics, error_metrics, log, echo, raised, now>>

check_infinite_timeout(m) ==
    /\ pc = "inf_loop"
    /\ Pending(m)
    /\ TimedOut(m)
    /\ log' = log \cup {LogEntry("error", "TimeoutError", m, NoDetail)}
    /\ Settle(m, "timeout", NoDetail)
    /\ UNCHANGED <<notCheck, infinite, dead, pc, metrics, bar, collections, echo, raised, now>>

check_infinite_error(m) ==
    /\ pc = "inf_loop"
    /\ Pending(m)
    /\ \E e \in ErrorDetails :
         /\ log' = log \cup {LogEntry("error", "HistoryError", m, e)}
         /\ Settle(m, "error", e)
    /\ UNCHANGED <<notCheck, infinite, dead, pc, metrics, bar, collections, echo, raised, now>>

check_for_infinite_loop ==
    /\ pc = "inf_loop"
    /\ bar < Cardinality(metrics)
    /\ done # <<>>
    /\ done' = Tail(done)
    /\ bar' = bar + 1
    /\ UNCHANGED <<notCheck, infinite, dead, pc, metrics, task, startedAt, outcome, result, collections,
                   log, echo, raised, now>>

\* mutant: the loop is left while requests are outstanding
check_for_infinite_loop_end_unsettled ==
    /\ pc = "inf_loop"
    /\ pc' = "inf_report"
    /\ UNCHANGED <<notCheck, infinite, dead, metrics, tasks, bar, collections, log, echo, raised, now>>

check_for_infinite_loop_end ==
    /\ pc = "inf_loop"
    /\ bar = Cardinality(metrics)
    /\ pc' = "inf_report"
    /\ UNCHANGED <<notCheck, infinite, dead, metrics, tasks, bar, collections, log, echo, raised, now>>

\* sorted(bad_metrics.items(), reverse=True), then back in check(): if dead: ...
check_for_infinite_report ==
    /\ pc = "inf_report"
    /\ echo' = echo
         \o (LET lines == Reverse(sorted(bad_metrics))
             IN  [i \in 1..Len(lines) |-> Line("non_finite", <<lines[i]>>)])
    \* the function returns: its locals are gone
    /\ task' = [m \in Metrics |-> "none"]
    /\ outcome' = [m \in Metrics |-> NoOutcome]
    /\ result' = [m \in Metrics |-> NoResult]
    /\ bar' = 0
    /\ bad_metrics' = {}
    /\ pc' = IF dead THEN "dead_requests" ELSE "exit"
    /\ UNCHANGED <<notCheck, infinite, dead, metrics, startedAt, done, dead_metrics,
                   no_value_metrics, timeout_metrics, error_metrics, log, raised, now>>

(***************************************************************************)
(* The specification of check.                                             *)
(***************************************************************************)
CheckStep ==
    \/ main
    \/ check
    \/ check_fails
    \/ check_for_infinite_requests
    \/ check_for_dead_requests
    \/ \E m \in Metrics : StartTask(m)
    \/ Tick
    \/ \E m \in Metrics : check_metric_result(m)
    \/ \E m \in Metrics : check_metric_timeout(m)
    \/ \E m \in Metrics : check_metric_error(m)
    \/ check_for_dead_loop
    \/ check_for_dead_loop_end
    \/ check_for_dead_report
    \/ \E m \in Metrics : check_infinite_result(m)
    \/ \E m \in Metrics : check_infinite_timeout(m)
    \/ \E m \in Metrics : check_infinite_error(m)
    \/ check_for_infinite_loop
    \/ check_for_infinite_loop_end
    \/ check_for_infinite_report

(***************************************************************************)
(* discover.                                                               *)
(***************************************************************************)
Tokens == 1..MaxTokens

\* the response on_discover is called with: the sender and the body, which
\* the number of the delivery stands for; the body may hold an error
Response(from_token, n, error) ==
    [from_token |-> from_token, response |-> n, error |-> error]

\* the responses of a snapshot file: 0 is a body no response of this run has
PreviousBodies == {0, 1}
NoSnapshot == [tok \in {} |-> 0]
Snapshots == UNION {[clients -> PreviousBodies] : clients \in SUBSET Tokens}

DiscoverStart ==
    /\ timeout \in {"None", "finite"}
    /\ format \in {"Json", "Pretty"}
    /\ diff \in BOOLEAN
    /\ previous \in IF diff THEN Snapshots ELSE {NoSnapshot}
    /\ ignored_events \in {{}, {"ErrorResponses"}}
    /\ d_pc = "main"
    /\ response_queue = <<>>
    /\ getter = "none"
    /\ must_cancel = FALSE
    /\ timer = "unset"
    /\ yielded = <<>>
    /\ printed = <<>>
    /\ stops = 0
    /\ d_raised = "none"
    /\ delivered = 0
    /\ on_time = {}

\* MetricQDiscover.discover: connect, rpc_consume, the broadcast of "discover";
\* the generator responses(timeout) is made and not started
MetricQDiscover_discover ==
    /\ d_pc = "main"
    /\ d_pc' = "broadcast"
    /\ UNCHANGED <<notDiscover, timeout, format, diff, previous, ignored_events, response_queue, getter, must_cancel, timer,
                   yielded, printed, stops, d_raised, delivered, on_time>>

\* mutant: the failure leaves discover() without the client being stopped
MetricQDiscover_discover_fails_unstopped ==
    /\ d_pc = "main"
    /\ d_raised' = "connect failed"
    /\ d_pc' = "stopped"
    /\ UNCHANGED <<notDiscover, timeout, format, diff, previous, ignored_events, response_queue,
                   getter, must_cancel, timer, yielded, printed, stops, delivered, on_time>>

\* connecting or the broadcast fails: stopping() stops the client and re-raises
MetricQDiscover_discover_fails ==
    /\ d_pc = "main"
    /\ d_raised' = "connect failed"
    /\ stops' = stops + 1
    /\ d_pc' = "stopping"
    /\ UNCHANGED <<notDiscover, timeout, format, diff, previous, ignored_events, response_queue, getter, must_cancel, timer,
                   yielded, printed, delivered, on_time>>

\* on_discover: put_nowait; Queue._wakeup_next sets the result of a waiting getter
on_discover(from_token, error) ==
    /\ d_pc \in {"broadcast", "iterating", "stopping"}
    /\ d_raised # "connect failed"
    /\ delivered < MaxResponses
    /\ delivered' = delivered + 1
    /\ response_queue' = Append(response_queue, Response(from_token, delivered', error))
    /\ getter' = IF getter = "pending" THEN "done" ELSE getter
    /\ on_time' = IF timer # "fired"
                  THEN on_time \cup {Response(from_token, delivered', error)}
                  ELSE on_time
    /\ UNCHANGED <<notDiscover, timeout, format, diff, previous, ignored_events, d_pc, must_cancel, timer, yielded, printed,
                   stops, d_raised>>

\* echo_status is called for a response of pretty mode: not for an error
\* response when these are ignored
Echoed(r) == ~r.error \/ "ErrorResponses" \notin ignored_events

\* mutant: every mode prints the responses as they are handed over
Consume_echoing(rs) ==
    /\ yielded' = yielded \o rs
    /\ printed' = printed \o SelectSeq(rs, Echoed)

\* what the consumer in discover() does with the responses it is handed:
\* pretty mode prints each, the other modes collect
Consume(rs) ==
    /\ yielded' = yielded \o rs
    /\ printed' = IF ~diff /\ format = "Pretty"
                  THEN printed \o SelectSeq(rs, Echoed)
                  ELSE printed

\* while True: yield await self._response_queue.get(): Queue.get returns without
\* suspending while the queue holds something, then waits on a new getter
Drain ==
    /\ Consume(response_queue)
    /\ response_queue' = <<>>
    /\ getter' = "pending"

\* the first __anext__ of responses(): the timeout context is entered
responses_start ==
    /\ d_pc = "broadcast"
    /\ d_pc' = "iterating"
    /\ timer' = IF timeout = "finite" THEN "armed" ELSE "unset"
    /\ Drain
    /\ UNCHANGED <<notDiscover, timeout, format, diff, previous, ignored_events, must_cancel, stops, d_raised, delivered, on_time>>

\* the mapping of the comprehension: the last response of every token
Collected ==
    [t \in {yielded[i].from_token : i \in 1..Len(yielded)} |->
        LET last == CHOOSE i \in 1..Len(yielded) :
                        /\ yielded[i].from_token = t
                        /\ \A j \in 1..Len(yielded) : yielded[j].from_token = t => j <= i
        IN  yielded[last].response]

\* print_list of print_diff: nothing for no clients, else the heading and one
\* line per client in sorted order
print_list(heading, clients, bullet) ==
    IF clients = {} THEN <<>>
    ELSE <<[echo |-> heading]>>
         \o [i \in 1..Cardinality(clients) |->
                [bullet |-> bullet, client_token |-> sorted(clients)[i]]]

\* mutant: the additional clients are all the current ones
print_diff_all_current(previous_snapshot, current, fmt) ==
    LET missing == DOMAIN previous_snapshot \ DOMAIN current
        additional == DOMAIN current
    IN  IF fmt = "Json"
        THEN <<[missing |-> [tok \in missing |-> previous_snapshot[tok]],
                additional |-> [tok \in additional |-> current[tok]]]>>
        ELSE print_list("Missing clients:", missing, "-")
             \o print_list("Additional clients:", additional, "+")

\* print_diff: what it prints, line by line
print_diff(previous_snapshot, current, fmt) ==
    LET previous_clients == DOMAIN previous_snapshot
        current_clients == DOMAIN current
        missing == previous_clients \ current_clients
        additional == current_clients \ previous_clients
    IN  IF fmt = "Json"
        THEN <<[missing |-> [tok \in missing |-> previous_snapshot[tok]],
                additional |-> [tok \in additional |-> current[tok]]]>>
        ELSE print_list("Missing clients:", missing, "-")
             \o print_list("Additional clients:", additional, "+")

\* the stream is over: discover() prints what it collected and leaves stopping()
EndOfStream ==
    /\ printed' = IF diff
                  THEN printed \o <<[print_diff |-> print_diff(previous, Collected, format)]>>
                  ELSE IF format = "Json" THEN printed \o <<[json |-> Collected]>>
                  ELSE printed
    /\ stops' = stops + 1
    /\ d_pc' = "stopping"

\* mutant: responses() does not catch the CancelledError: async_timeout turns it
\* into a TimeoutError that leaves discover() through stopping()
OnCancelledNotCaught ==
    /\ d_raised' = "TimeoutError"
    /\ stops' = stops + 1
    /\ d_pc' = "stopping"
    /\ UNCHANGED printed

\* except CancelledError: return; the timeout context is left without an
\* exception, so async_timeout raises none
OnCancelled ==
    /\ EndOfStream
    /\ UNCHANGED d_raised

\* the task running discover() is resumed in Queue.get()
responses_resume ==
    /\ d_pc = "iterating"
    /\ getter \in {"done", "cancelled"}
    /\ IF getter = "cancelled" \/ must_cancel
       THEN \* CancelledError is thrown into await getter
            /\ OnCancelled
            /\ getter' = "none"
            /\ must_cancel' = FALSE
            /\ timer' = IF timer = "armed" THEN "cancelled" ELSE timer
            /\ UNCHANGED <<response_queue, yielded>>
       ELSE /\ Drain
            /\ UNCHANGED <<d_pc, must_cancel, timer, stops, d_raised>>
    /\ UNCHANGED <<notDiscover, timeout, format, diff, previous, ignored_events, delivered, on_time>>

\* async_timeout's timer: Task.cancel() cancels the future the task waits on,
\* or, when that future is done already, marks the task to be cancelled
timer_fires ==
    /\ timer = "armed"
    /\ d_pc = "iterating"
    /\ timer' = "fired"
    /\ IF getter = "pending"
       THEN getter' = "cancelled" /\ UNCHANGED must_cancel
       ELSE must_cancel' = TRUE /\ UNCHANGED getter
    /\ UNCHANGED <<notDiscover, timeout, format, diff, previous, ignored_events, d_pc, response_queue, yielded, printed, stops,
                   d_raised, delivered, on_time>>

\* await client.stop() returns; discover() returns or re-raises
stop_returns ==
    /\ d_pc = "stopping"
    /\ d_pc' = "stopped"
    /\ UNCHANGED <<notDiscover, timeout, format, diff, previous, ignored_events, response_queue, getter, must_cancel, timer,
                   yielded, printed, stops, d_raised, delivered, on_time>>

\* the exception leaves the body of "async with stopping(...)": the finally
\* clause of stopping() stops the client, then the exception is re-raised
Unwind(exception) ==
    /\ d_raised' = exception
    /\ stops' = stops + 1
    /\ d_pc' = "stopping"

\* previous = json.load(diff) fails: the file does not hold JSON
json_load_fails ==
    /\ d_pc = "broadcast"
    /\ diff
    /\ Unwind("JSONDecodeError")
    /\ UNCHANGED <<notDiscover, timeout, format, diff, previous, ignored_events, response_queue,
                   getter, must_cancel, timer, yielded, printed, delivered, on_time>>

\* the stream is over and print() or print_diff() fails (say, on a closed
\* standard output)
print_fails ==
    /\ d_pc = "iterating"
    /\ getter = "cancelled" \/ (getter = "done" /\ must_cancel)
    /\ diff \/ format = "Json"
    /\ Unwind("OSError")
    /\ getter' = "none"
    /\ must_cancel' = FALSE
    /\ timer' = IF timer = "armed" THEN "cancelled" ELSE timer
    /\ UNCHANGED <<notDiscover, timeout, format, diff, previous, ignored_events, response_queue,
                   yielded, printed, delivered, on_time>>

\* echo_status fails on the first response pretty mode is handed
echo_fails ==
    /\ d_pc = "iterating"
    /\ getter = "done" /\ ~must_cancel
    /\ ~diff /\ format = "Pretty"
    /\ response_queue # <<>>
    /\ Echoed(Head(response_queue))
    /\ yielded' = Append(yielded, Head(response_queue))
    /\ response_queue' = Tail(response_queue)
    /\ getter' = "none"
    /\ Unwind("OSError")
    /\ UNCHANGED <<notDiscover, timeout, format, diff, previous, ignored_events, must_cancel,
                   timer, printed, delivered, on_time>>

DiscoverFaults == json_load_fails \/ print_fails \/ echo_fails

DiscoverStep ==
    \/ MetricQDiscover_discover
    \/ MetricQDiscover_discover_fails
    \/ \E t \in Tokens, error \in BOOLEAN : on_discover(t, error)
    \/ responses_start
    \/ responses_resume
    \/ timer_fires
    \/ stop_returns

(***************************************************************************)
(* inspect (src/metricq_tools/inspect.py): the sink that accumulates the   *)
(* data points of one metric.                                              *)
(***************************************************************************)
\* timestamp.posix of the data points, in seconds
Stamps == {0, 1, 3, 6}
\* the values of the data points; the sink never looks at a value, so one
\* value stands for all
DataValues == {1}
DataPoint(timestamp, value) == [timestamp |-> timestamp, value |-> value]
DataPoints == {DataPoint(t, v) : t \in Stamps, v \in DataValues}

\* the data points of one message: at least one, at most n of them
RECURSIVE Chunks(_)
Chunks(n) ==
    IF n = 1 THEN {<<d>> : d \in DataPoints}
    ELSE Chunks(n - 1)
         \cup {Append(c, d) : c \in {c \in Chunks(n - 1) : Len(c) = n - 1}, d \in DataPoints}

\* message.client_id; None when the message has no such attribute
Senders == {"None", "source"}
\* message.routing_key
RoutingKeys == {"None", "metric"}

\* the flags of the command line: the defaults, and every flag the other way
InspectOptions ==
    {[intervals_histogram |-> TRUE, values_histogram |-> TRUE,
      chunk_sizes_histogram |-> FALSE, print_data |-> FALSE],
     [intervals_histogram |-> FALSE, values_histogram |-> FALSE,
      chunk_sizes_histogram |-> TRUE, print_data |-> TRUE]}

\* the truth value of an Optional[float]: None and 0.0 are false
Truthy(x) == x # <<>> /\ x[1] # 0

NoTokens == [t \in {} |-> 0]

InspectStart ==
    /\ i_pc = "init"
    /\ tokens = NoTokens
    /\ chunk_sizes = <<>>
    /\ chunk = <<>>
    /\ timestamps = <<>>
    /\ last_timestamp = <<>>
    /\ intervals = <<>>
    /\ values = <<>>
    /\ options \in InspectOptions
    /\ i_log = {}
    /\ i_echo = <<>>

\* connect(): the sink subscribes to the metric
InspectSink_connect ==
    /\ i_pc = "init"
    /\ i_pc' = "inspecting"
    /\ UNCHANGED <<notInspect, tokens, chunk_sizes, chunk, timestamps, last_timestamp,
                   intervals, values, options, i_log, i_echo>>

\* _on_data_message up to the call of _on_data_chunk, which hands the data
\* points of the chunk to on_data one after the other
InspectSink_on_data_message(from_token, metric, data) ==
    /\ i_pc = "inspecting"
    /\ chunk = <<>>
    /\ Len(chunk_sizes) < MaxValues
    /\ Len(timestamps) + Len(data) <= MaxValues
    /\ IF metric = "None"
       THEN /\ i_log' = i_log \cup
                  {LogEntry("warning", "data message without routing key", 0, from_token)}
            /\ UNCHANGED <<tokens, chunk_sizes, chunk>>
       ELSE /\ tokens' = [t \in DOMAIN tokens \cup {from_token} |->
                            IF t = from_token
                            THEN (IF t \in DOMAIN tokens THEN tokens[t] ELSE 0) + 1
                            ELSE tokens[t]]
            /\ chunk_sizes' = Append(chunk_sizes, Len(data))
            /\ chunk' = data
            /\ i_log' = i_log
    /\ UNCHANGED <<notInspect, i_pc, timestamps, last_timestamp, intervals, values,
                   options, i_echo>>

\* on_data, called for the next data point of the chunk
InspectSink_on_data ==
    /\ i_pc = "inspecting"
    /\ chunk # <<>>
    /\ LET timestamp == Head(chunk).timestamp
           value == Head(chunk).value
       IN  /\ i_echo' = IF options.print_data
                        THEN Append(i_echo, [data |-> Head(chunk)]) ELSE i_echo
           /\ timestamps' = Append(timestamps, timestamp)
           /\ intervals' = IF Truthy(last_timestamp)
                           THEN Append(intervals, timestamp - last_timestamp[1])
                           ELSE intervals
           /\ last_timestamp' = <<timestamp>>
           /\ values' = Append(values, value)
    /\ chunk' = Tail(chunk)
    /\ UNCHANGED <<notInspect, i_pc, tokens, chunk_sizes, options, i_log>>

Histogram(name, data) == [histogram |-> name, data |-> data]

\* print_histograms
InspectSink_print_histograms ==
    (IF options.chunk_sizes_histogram
     THEN <<Histogram("chunk_sizes", chunk_sizes)>> ELSE <<>>)
    \o (IF options.intervals_histogram /\ Truthy(last_timestamp)
        THEN <<Histogram("intervals", intervals)>> ELSE <<>>)
    \o (IF options.values_histogram
        THEN <<Histogram("values", values)>> ELSE <<>>)

\* on_signal: the senders and the histograms are printed, then the sink stops
InspectSink_on_signal ==
    /\ i_pc = "inspecting"
    /\ chunk = <<>>
    /\ i_echo' = i_echo \o <<[tokens |-> tokens]>> \o InspectSink_print_histograms
    /\ i_pc' = "stopped"
    /\ UNCHANGED <<notInspect, tokens, chunk_sizes, chunk, timestamps, last_timestamp,
                   intervals, values, options, i_log>>

InspectStep ==
    \/ InspectSink_connect
    \/ \E from_token \in Senders, metric \in RoutingKeys, data \in Chunks(MaxChunk) :
         InspectSink_on_data_message(from_token, metric, data)
    \/ InspectSink_on_data
    \/ InspectSink_on_signal

\* the sum of the counters of the senders
RECURSIVE CounterSum(_, _)
CounterSum(counters, senders) ==
    IF senders = {} THEN 0
    ELSE LET t == CHOOSE x \in senders : TRUE
         IN  counters[t] + CounterSum(counters, senders \ {t})

\* _on_data_message of a message with a routing key whose body is no DataChunk:
\* the sender is counted, then ParseFromString raises DecodeError, which leaves
\* the handler before the chunk size is recorded (message.process requeues the
\* message, which is delivered again)
InspectSink_on_data_message_parse_fails(from_token, metric) ==
    /\ i_pc = "inspecting"
    /\ chunk = <<>>
    /\ metric # "None"
    /\ CounterSum(tokens, DOMAIN tokens) - Len(chunk_sizes) < MaxFailures
    /\ tokens' = [t \in DOMAIN tokens \cup {from_token} |->
                    IF t = from_token
                    THEN (IF t \in DOMAIN tokens THEN tokens[t] ELSE 0) + 1
                    ELSE tokens[t]]
    /\ i_log' = i_log \cup {LogEntry("error", "DecodeError", 0, from_token)}
    /\ UNCHANGED <<notInspect, i_pc, chunk_sizes, chunk, timestamps, last_timestamp,
                   intervals, values, options, i_echo>>

InspectFaults ==
    \E from_token \in Senders, metric \in RoutingKeys :
        InspectSink_on_data_message_parse_fails(from_token, metric)

(***************************************************************************)
(* summary (src/metricq_tools/summary.py): the sink that accumulates the   *)
(* data points of some metrics while a command runs.                       *)
(***************************************************************************)
SummaryMetrics == {1, 2}

\* the flags of the command line: the defaults, and every flag the other way
SummaryOptions ==
    {[intervals_histogram |-> TRUE, values_histogram |-> TRUE,
      chunk_sizes_histogram |-> FALSE, print_data |-> FALSE, print_stats |-> TRUE],
     [intervals_histogram |-> FALSE, values_histogram |-> FALSE,
      chunk_sizes_histogram |-> TRUE, print_data |-> TRUE, print_stats |-> FALSE]}

NoChunk == [metric |-> 0, data |-> <<>>]

\* SummarySink.__init__
SummaryStart ==
    /\ s_pc = "init"
    /\ s_metrics \in {{1}, SummaryMetrics}
    /\ s_options \in SummaryOptions
    /\ s_proc = "none"
    /\ s_data = "no"
    /\ s_signalled = FALSE
    /\ s_stops = 0
    /\ s_tokens = NoTokens
    /\ s_chunk_sizes = [m \in s_metrics |-> <<>>]
    /\ s_chunk = NoChunk
    /\ s_timestamps = [m \in s_metrics |-> <<>>]
    /\ s_last_timestamp = [m \in s_metrics |-> <<>>]
    /\ s_intervals = [m \in s_metrics |-> <<>>]
    /\ s_values = [m \in s_metrics |-> <<>>]
    /\ s_echo = <<>>
    /\ s_raised = "none"

\* the task running connect() is between two messages and may go on
SummaryRuns == s_chunk = NoChunk /\ s_raised = "none"

\* connect(): await super().connect(); click.echo("Inspecting ...")
SummarySink_connect ==
    /\ s_pc = "init"
    /\ SummaryRuns
    /\ s_echo' = Append(s_echo, [text |-> "Inspecting"])
    /\ s_pc' = "subscribe"
    /\ UNCHANGED <<notSummary, s_metrics, s_options, s_proc, s_data, s_signalled, s_stops,
                   s_chunk, accumulators, s_raised>>

\* connecting fails
SummarySink_connect_fails ==
    /\ s_pc = "init"
    /\ SummaryRuns
    /\ s_raised' = "connect failed"
    /\ UNCHANGED <<notSummary, s_pc, s_metrics, s_options, s_proc, s_data, s_signalled,
                   s_stops, s_chunk, accumulators, s_echo>>

\* await self.subscribe(self._metrics): data messages arrive from now on
SummarySink_subscribe ==
    /\ s_pc = "subscribe"
    /\ SummaryRuns
    /\ s_data' = IF s_data = "no" THEN "open" ELSE s_data
    /\ s_pc' = "run_cmd"
    /\ UNCHANGED <<notSummary, s_metrics, s_options, s_proc, s_signalled, s_stops, s_chunk,
                   accumulators, s_echo, s_raised>>

\* run_cmd up to await proc.communicate(): the command is started
SummarySink_run_cmd ==
    /\ s_pc = "run_cmd"
    /\ SummaryRuns
    /\ s_echo' = Append(s_echo, [text |-> "running"])
    /\ s_proc' = "running"
    /\ s_pc' = "communicate"
    /\ UNCHANGED <<notSummary, s_metrics, s_options, s_data, s_signalled, s_stops, s_chunk,
                   accumulators, s_raised>>

\* the command exits
command_exits ==
    /\ s_proc = "running"
    /\ s_proc' = "exited"
    /\ UNCHANGED <<notSummary, s_pc, s_metrics, s_options, s_data, s_signalled, s_stops,
                   s_chunk, accumulators, s_echo, s_raised>>

\* mutant: run_cmd does not wait for the command
SummarySink_run_cmd_returns_at_once ==
    /\ s_pc = "communicate"
    /\ SummaryRuns
    /\ s_echo' = Append(s_echo, [text |-> "exited"])
    /\ s_pc' = "stop"
    /\ UNCHANGED <<notSummary, s_metrics, s_options, s_proc, s_data, s_signalled, s_stops,
                   s_chunk, accumulators, s_raised>>

\* proc.communicate() returns when the command has exited; run_cmd prints the
\* return code and what the command wrote
SummarySink_run_cmd_returns ==
    /\ s_pc = "communicate"
    /\ SummaryRuns
    /\ s_proc = "exited"
    /\ s_echo' = Append(s_echo, [text |-> "exited"])
    /\ s_pc' = "stop"
    /\ UNCHANGED <<notSummary, s_metrics, s_options, s_proc, s_data, s_signalled, s_stops,
                   s_chunk, accumulators, s_raised>>

\* await self.stop(): the connections are closed, no data message arrives any more
SummarySink_stop ==
    /\ s_pc = "stop"
    /\ SummaryRuns
    /\ s_data' = "closed"
    /\ s_stops' = s_stops + 1
    /\ s_pc' = "print"
    /\ UNCHANGED <<notSummary, s_metrics, s_options, s_proc, s_signalled, s_chunk,
                   accumulators, s_echo, s_raised>>

\* what print_histograms prints for one metric
SummarySink_print_metric(metric) ==
    IF s_values[metric] # <<>>
    THEN <<[text |-> "Stats of metric", metric |-> metric]>>
         \o (IF s_options.chunk_sizes_histogram
             THEN <<[metric |-> metric,
                     print |-> Histogram("chunk_sizes", s_chunk_sizes[metric])]>>
             ELSE <<>>)
         \o (IF s_options.intervals_histogram /\ Truthy(s_last_timestamp[metric])
             THEN <<[metric |-> metric,
                     print |-> Histogram("intervals", s_intervals[metric])]>>
             ELSE <<>>)
         \o (IF s_options.values_histogram
             THEN <<[metric |-> metric, print |-> Histogram("values", s_values[metric])]>>
             ELSE <<>>)
         \o (IF s_options.print_stats
             THEN <<[metric |-> metric, print |-> Histogram("statistics", s_values[metric])]>>
             ELSE <<>>)
    ELSE <<[text |-> "No Data for metric", metric |-> metric]>>

RECURSIVE SummarySink_print_all(_)
SummarySink_print_all(ms) ==
    IF ms = <<>> THEN <<>>
    ELSE SummarySink_print_metric(Head(ms)) \o SummarySink_print_all(Tail(ms))

\* self.print_histograms(), the last statement of connect()
SummarySink_print_histograms ==
    /\ s_pc = "print"
    /\ SummaryRuns
    /\ s_echo' = s_echo \o SummarySink_print_all(sorted(s_metrics))
    /\ s_pc' = "done"
    /\ UNCHANGED <<notSummary, s_metrics, s_options, s_proc, s_data, s_signalled, s_stops,
                   s_chunk, accumulators, s_raised>>

\* _on_data_message up to the call of _on_data_chunk
SummarySink_on_data_message(from_token, metric, data) ==
    /\ s_data = "open"
    /\ s_chunk = NoChunk
    /\ metric \in s_metrics
    /\ LET received == Len(s_timestamps[1])
                       + (IF 2 \in s_metrics THEN Len(s_timestamps[2]) ELSE 0)
       IN  received + Len(data) <= MaxSummaryValues
    /\ s_tokens' = [t \in DOMAIN s_tokens \cup {from_token} |->
                      IF t = from_token
                      THEN (IF t \in DOMAIN s_tokens THEN s_tokens[t] ELSE 0) + 1
                      ELSE s_tokens[t]]
    /\ s_chunk_sizes' = [s_chunk_sizes EXCEPT ![metric] = Append(@, Len(data))]
    /\ s_chunk' = [metric |-> metric, data |-> data]
    /\ UNCHANGED <<notSummary, s_pc, s_metrics, s_options, s_proc, s_data, s_signalled,
                   s_stops, s_timestamps, s_last_timestamp, s_intervals, s_values, s_echo,
                   s_raised>>

\* on_data, called for the next data point of the chunk
SummarySink_on_data ==
    /\ s_chunk # NoChunk
    /\ LET metric == s_chunk.metric
           timestamp == Head(s_chunk.data).timestamp
           value == Head(s_chunk.data).value
       IN  /\ s_echo' = IF s_options.print_data
                        THEN Append(s_echo, [data |-> Head(s_chunk.data)]) ELSE s_echo
           /\ s_timestamps' = [s_timestamps EXCEPT ![metric] = Append(@, timestamp)]
           /\ s_intervals' =
                IF Truthy(s_last_timestamp[metric])
                THEN [s_intervals EXCEPT
                        ![metric] = Append(@, timestamp - s_last_timestamp[metric][1])]
                ELSE s_intervals
           /\ s_last_timestamp' = [s_last_timestamp EXCEPT ![metric] = <<timestamp>>]
           /\ s_values' = [s_values EXCEPT ![metric] = Append(@, value)]
    /\ s_chunk' = IF Len(s_chunk.data) = 1 THEN NoChunk
                  ELSE [s_chunk EXCEPT !.data = Tail(@)]
    /\ UNCHANGED <<notSummary, s_pc, s_metrics, s_options, s_proc, s_data, s_signalled,
                   s_stops, s_tokens, s_chunk_sizes, s_raised>>

\* on_signal (SIGINT, SIGTERM) while data arrives: the senders are printed, then
\* the handler of the base class stops the sink
SummarySink_on_signal ==
    /\ s_data = "open"
    /\ s_chunk = NoChunk
    /\ ~s_signalled
    /\ s_echo' = Append(s_echo, [tokens |-> s_tokens])
    /\ s_signalled' = TRUE
    /\ s_data' = "closed"
    /\ s_stops' = s_stops + 1
    /\ UNCHANGED <<notSummary, s_pc, s_metrics, s_options, s_proc, s_chunk, accumulators,
                   s_raised>>

\* the sink has been stopped by the signal: run() may end before connect() has
\* come to its end
SummarySink_run_ends ==
    /\ s_signalled
    /\ s_chunk = NoChunk
    /\ s_pc \notin {"done", "cancelled"}
    /\ s_pc' = "cancelled"
    /\ UNCHANGED <<notSummary, s_metrics, s_options, s_proc, s_data, s_signalled, s_stops,
                   s_chunk, accumulators, s_echo, s_raised>>

SummaryStep ==
    \/ SummarySink_connect
    \/ SummarySink_connect_fails
    \/ SummarySink_subscribe
    \/ SummarySink_run_cmd
    \/ command_exits
    \/ SummarySink_run_cmd_returns
    \/ SummarySink_stop
    \/ SummarySink_print_histograms
    \/ \E from_token \in Senders, metric \in SummaryMetrics, data \in Chunks(MaxChunk) :
         SummarySink_on_data_message(from_token, metric, data)
    \/ SummarySink_on_data
    \/ SummarySink_on_signal
    \/ SummarySink_run_ends

(***************************************************************************)
(* energy (src/metricq_tools/energy.py): the mean of a metric over the run *)
(* of a command, times the duration of the run.                            *)
(***************************************************************************)
\* the timestamps of the data points, in seconds: a source may stamp a value
\* with any time of the clock
EnergyStamps == 0..MaxClock
\* the values of the data points
EnergyValues == {1, 3}
\* the units the metadata may give: none, one of _UNIT_MAP, one that is no power
Units == {"", "kilowatts", "V"}

_UNIT_MAP(power_unit) ==
    CASE power_unit = "watts" -> "W"
      [] power_unit = "kilowatts" -> "kW"
      [] OTHER -> power_unit

\* _get_units: the units of the mean and of the integral, and whether a warning
\* was logged
_get_units(given) ==
    LET assumed == IF given = "" THEN "W" ELSE given
        power_unit == _UNIT_MAP(assumed)
        energy_unit == CASE power_unit = "W" -> "J"
                         [] power_unit = "kW" -> "kJ"
                         [] power_unit = "MW" -> "MJ"
                         [] OTHER -> "other"
    IN  [power_unit |-> power_unit,
         energy_unit |-> energy_unit,
         warned |-> (given = "" \/ energy_unit = "other")]

\* a quotient of floats: kept as the pair of what is divided
Quotient(num, den) == [num |-> num, den |-> den]

EnergyStart ==
    /\ e_pc = "init"
    /\ e_now = 0
    /\ unit \in Units
    /\ time_before = 0
    /\ time_after = 0
    /\ e_queue = <<>>
    /\ e_seen = <<>>
    /\ value_sum = 0
    /\ value_count = 0
    /\ e_log = {}
    /\ e_echo = <<>>
    /\ e_raised = "none"

\* the clock goes on until the report is made
energy_tick ==
    /\ e_pc \in {"init", "running", "collecting"}
    /\ e_now < MaxClock
    /\ e_now' = e_now + 1
    /\ UNCHANGED <<notEnergy, e_pc, unit, time_before, time_after, e_queue, e_seen,
                   value_sum, value_count, e_log, e_echo, e_raised>>

\* async with subscriber: connected and subscribed; time_before = Timestamp.now();
\* run_cmd starts the command
collect_energy ==
    /\ e_pc = "init"
    /\ time_before' = e_now
    /\ e_pc' = "running"
    /\ UNCHANGED <<notEnergy, e_now, unit, time_after, e_queue, e_seen, value_sum,
                   value_count, e_log, e_echo, e_raised>>

\* connecting fails
collect_energy_fails ==
    /\ e_pc = "init"
    /\ e_raised' = "connect failed"
    /\ e_pc' = "done"
    /\ UNCHANGED <<notEnergy, e_now, unit, time_before, time_after, e_queue, e_seen,
                   value_sum, value_count, e_log, e_echo>>

\* a data point of the metric reaches the queue of the subscription
energy_data(timestamp, value) ==
    /\ e_pc \in {"running", "collecting"}
    /\ Len(e_queue) + Len(e_seen) < MaxEnergyValues
    /\ e_queue' = Append(e_queue, DataPoint(timestamp, value))
    /\ UNCHANGED <<notEnergy, e_pc, e_now, unit, time_before, time_after, e_seen, value_sum,
                   value_count, e_log, e_echo, e_raised>>

\* run_cmd returns: the command has run for some time, time_after =
\* Timestamp.now(), so that the assertion duration.s > 0 holds
collect_energy_run_cmd_returns ==
    /\ e_pc = "running"
    /\ e_now > time_before
    /\ time_after' = e_now
    /\ value_sum' = 0
    /\ value_count' = 0
    /\ e_pc' = "collecting"
    /\ UNCHANGED <<notEnergy, e_now, unit, time_before, e_queue, e_seen, e_log, e_echo,
                   e_raised>>

\* mutant: the ends of the window are left out
collect_energy_data_exclusive ==
    /\ e_pc = "collecting"
    /\ e_queue # <<>>
    /\ LET timestamp == Head(e_queue).timestamp
           value == Head(e_queue).value
       IN  IF ~(time_before < timestamp /\ timestamp < time_after)
           THEN UNCHANGED <<value_sum, value_count>>
           ELSE /\ value_sum' = value_sum + value
                /\ value_count' = value_count + 1
    /\ e_seen' = Append(e_seen, Head(e_queue))
    /\ e_queue' = Tail(e_queue)
    /\ UNCHANGED <<notEnergy, e_pc, e_now, unit, time_before, time_after, e_log, e_echo,
                   e_raised>>

\* one round of async for ... in subscriber.collect_data()
collect_energy_data ==
    /\ e_pc = "collecting"
    /\ e_queue # <<>>
    /\ LET timestamp == Head(e_queue).timestamp
           value == Head(e_queue).value
       IN  IF ~(time_before <= timestamp /\ timestamp <= time_after)
           THEN UNCHANGED <<value_sum, value_count>>
           ELSE /\ value_sum' = value_sum + value
                /\ value_count' = value_count + 1
    /\ e_seen' = Append(e_seen, Head(e_queue))
    /\ e_queue' = Tail(e_queue)
    /\ UNCHANGED <<notEnergy, e_pc, e_now, unit, time_before, time_after, e_log, e_echo,
                   e_raised>>

\* the queue is drained: the subscriber is left and the result reported
collect_energy_report ==
    /\ e_pc = "collecting"
    /\ e_queue = <<>>
    /\ LET duration == time_after - time_before
           value_mean == Quotient(value_sum, value_count)
           energy == Quotient(value_sum * duration, value_count)
           units == _get_units(unit)
       IN  IF value_count = 0
           THEN /\ e_echo' = Append(e_echo, [duration |-> duration, values |-> value_count])
                /\ e_log' = e_log \cup {"No data received"}
           ELSE /\ e_echo' = e_echo \o
                     <<[duration |-> duration, values |-> value_count],
                       [mean |-> value_mean, unit |-> units.power_unit],
                       [integral |-> energy, unit |-> units.energy_unit]>>
                /\ e_log' = e_log
                     \cup (IF value_count < 10 THEN {"Received only few data points"} ELSE {})
                     \cup (IF units.warned THEN {"unit"} ELSE {})
    /\ e_pc' = "done"
    /\ UNCHANGED <<notEnergy, e_now, unit, time_before, time_after, e_queue, e_seen,
                   value_sum, value_count, e_raised>>

EnergyStep ==
    \/ energy_tick
    \/ collect_energy
    \/ collect_energy_fails
    \/ \E timestamp \in EnergyStamps, value \in EnergyValues : energy_data(timestamp, value)
    \/ collect_energy_run_cmd_returns
    \/ collect_energy_data
    \/ collect_energy_report

(***************************************************************************)
(* The parameter types of src/metricq_tools/utils.py.  A string is the     *)
(* sequence of its characters; there is one lower-case letter, one         *)
(* upper-case letter, one digit and the hyphen.                            *)
(***************************************************************************)
NameChars == {"a", "A", "1"}
Chars == NameChars \cup {"-"}

IsUpper(c) == c = "A"
IsCased(c) == c \in {"a", "A"}
ToLower(c) == IF c = "A" THEN "a" ELSE c
ToUpper(c) == IF c = "a" THEN "A" ELSE c

\* the strings over an alphabet of a length from 1 to n
RECURSIVE Strings(_, _)
Strings(alphabet, n) ==
    IF n = 0 THEN {}
    ELSE LET shorter == Strings(alphabet, n - 1)
         IN  {<<c>> : c \in alphabet} \cup shorter
             \cup {Append(w, c) : w \in {w \in shorter : Len(w) = n - 1}, c \in alphabet}

\* the names an enum can give its members: identifiers, so no digit in front
MemberNames == {name \in Strings(NameChars, MaxNameLen) : name[1] # "1"}

\* str.lower()
lower(string) == [i \in 1..Len(string) |-> ToLower(string[i])]

\* str.title(): a cased character is made upper case when the character before
\* it is not cased, lower case when it is
title(string) ==
    [i \in 1..Len(string) |->
        IF ~IsCased(string[i]) THEN string[i]
        ELSE IF i > 1 /\ IsCased(string[i - 1]) THEN ToLower(string[i])
        ELSE ToUpper(string[i])]

\* str.split("-")
RECURSIVE split(_)
split(string) ==
    IF \A i \in 1..Len(string) : string[i] # "-" THEN <<string>>
    ELSE LET at == CHOOSE i \in 1..Len(string) :
                      string[i] = "-" /\ \A j \in 1..(i - 1) : string[j] # "-"
         IN  <<SubSeq(string, 1, at - 1)>> \o split(SubSeq(string, at + 1, Len(string)))

\* "".join(parts)
RECURSIVE join(_)
join(parts) == IF parts = <<>> THEN <<>> ELSE Head(parts) \o join(Tail(parts))

\* re.sub(r"(?<!^)(?=[A-Z])", "-", camelcase): a hyphen before every upper-case
\* character that is not the first character
RECURSIVE sub(_, _)
sub(camelcase, i) ==
    IF i > Len(camelcase) THEN <<>>
    ELSE (IF i > 1 /\ IsUpper(camelcase[i]) THEN <<"-">> ELSE <<>>)
         \o <<camelcase[i]>> \o sub(camelcase, i + 1)

camelcase_to_kebabcase(camelcase) == lower(sub(camelcase, 1))

\* mutant: the parts are joined as they are
kebabcase_to_camelcase_untitled(kebabcase) == join(split(kebabcase))

kebabcase_to_camelcase(kebabcase) ==
    LET parts == split(kebabcase)
    IN  join([i \in 1..Len(parts) |-> title(parts[i])])

\* the values convert() is called with and returns
None == [type |-> "None", text |-> <<>>]
Str(text) == [type |-> "str", text |-> text]
Member(name) == [type |-> "member", text |-> name]

\* what a call came to: a value returned, the parameter error of self.fail(),
\* or another exception
Return(value) == [kind |-> "return", value |-> value]
Fail == [kind |-> "fail", value |-> None]
Raise(exception) == [kind |-> exception, value |-> None]
NotCalled == [kind |-> "none", value |-> None]

\* CommandLineChoice.as_choice
as_choice(name) == camelcase_to_kebabcase(name)

\* CommandLineChoice.from_choice: the member of that name, or a KeyError
from_choice(enum, option) ==
    LET member_name == kebabcase_to_camelcase(lower(option))
    IN  IF member_name \in enum THEN Return(Member(member_name)) ELSE Raise("KeyError")

\* mutant: the KeyError of from_choice is not caught
ChoiceParam_convert_uncaught(enum, value) ==
    IF value = None THEN Return(None)
    ELSE IF value.type = "str" THEN from_choice(enum, value.text)
    ELSE Return(value)

\* ChoiceParam.convert
ChoiceParam_convert(enum, value) ==
    IF value = None THEN Return(None)
    ELSE IF value.type = "str"
         THEN LET found == from_choice(enum, value.text)
              IN  IF found.kind \in {"KeyError", "ValueError"} THEN Fail ELSE found
         ELSE Return(value)

\* the strings given to a DurationParam and a TimestampParam
Text30s == <<"3", "0", "s">>
TextMinus10h == <<"-", "1", "0", "h">>
TextNow == <<"n", "o", "w">>
TextEpoch == <<"e", "p", "o", "c", "h">>
TextPosix == <<"1", "2", ".", "5">>
TextIso == <<"2", "0", "2", "1", "-", "0", "5", "-", "0", "2", "T", "0", "0", ":", "0", "0", ":", "0", "0", "Z">>
TextBogus == <<"b", "o", "g", "u", "s">>
TextMinusBogus == <<"-", "b", "o", "g", "u", "s">>
Texts == {Text30s, TextMinus10h, TextNow, TextEpoch, TextPosix, TextIso, TextBogus, TextMinusBogus}

Timedelta(text) == [type |-> "Timedelta", text |-> text]
Timestamp(text) == [type |-> "Timestamp", text |-> text]
Other == [type |-> "int", text |-> <<>>]

\* Timedelta.from_string: the duration, or a ValueError
Timedelta_from_string(text) ==
    IF text \in {Text30s, TextMinus10h} THEN Return(Timedelta(text)) ELSE Raise("ValueError")

\* DurationParam.convert
DurationParam_convert(value) ==
    IF value = None THEN Return(None)
    ELSE IF value.type = "str"
         THEN LET parsed == Timedelta_from_string(value.text)
              IN  IF parsed.kind = "ValueError" THEN Fail ELSE parsed
         ELSE Return(value)

\* TimestampParam._convert
TimestampParam__convert(text) ==
    IF text = TextNow THEN Return(Timestamp(text))
    ELSE IF text = TextEpoch THEN Return(Timestamp(text))
    ELSE IF text[1] = "-"
         THEN IF Timedelta_from_string(text).kind = "ValueError"
              THEN Raise("ValueError") ELSE Return(Timestamp(text))
    ELSE IF text = TextPosix THEN Return(Timestamp(text))
    ELSE IF text = TextIso THEN Return(Timestamp(text))
    ELSE Raise("ValueError")

\* TimestampParam.convert
TimestampParam_convert(value) ==
    IF value = None THEN Return(None)
    ELSE IF value.type = "Timestamp" THEN Return(value)
    ELSE IF value.type = "str"
         THEN LET parsed == TimestampParam__convert(value.text)
              IN  IF parsed.kind = "ValueError" THEN Fail ELSE parsed
         ELSE Fail

\* the enums: one or two members
Enums == {enum \in SUBSET MemberNames : Cardinality(enum) \in 1..2}

ChoiceInputs(enum) ==
    {None, Other}
    \cup {Member(name) : name \in enum}
    \cup {Str(as_choice(name)) : name \in enum}
    \cup {Str(text) : text \in Strings(Chars, MaxInputLen)}

DurationInputs == {None, Other} \cup {Str(text) : text \in Texts} \cup {Timedelta(Text30s)}

TimestampInputs ==
    {None, Other} \cup {Str(text) : text \in Texts} \cup {Timestamp(TextEpoch), Timedelta(Text30s)}

ParamStart ==
    /\ p_pc = "input"
    /\ p_result = NotCalled
    /\ \/ /\ p_param = "Choice"
          /\ p_enum \in Enums
          /\ p_value \in ChoiceInputs(p_enum)
       \/ /\ p_param = "Duration"
          /\ p_enum = {}
          /\ p_value \in DurationInputs
       \/ /\ p_param = "Timestamp"
          /\ p_enum = {}
          /\ p_value \in TimestampInputs

\* click calls convert() of the parameter type with the value
ChoiceParam_call ==
    /\ p_pc = "input"
    /\ p_param = "Choice"
    /\ p_result' = ChoiceParam_convert(p_enum, p_value)
    /\ p_pc' = "converted"
    /\ UNCHANGED <<notParam, p_param, p_enum, p_value>>

DurationParam_call ==
    /\ p_pc = "input"
    /\ p_param = "Duration"
    /\ p_result' = DurationParam_convert(p_value)
    /\ p_pc' = "converted"
    /\ UNCHANGED <<notParam, p_param, p_enum, p_value>>

TimestampParam_call ==
    /\ p_pc = "input"
    /\ p_param = "Timestamp"
    /\ p_result' = TimestampParam_convert(p_value)
    /\ p_pc' = "converted"
    /\ UNCHANGED <<notParam, p_param, p_enum, p_value>>

ParamStep == ChoiceParam_call \/ DurationParam_call \/ TimestampParam_call

(***************************************************************************)
(* spy (src/metricq_tools/spy.py): the metrics that get_metrics returns    *)
(* for the patterns, handled one after the other.                          *)
(***************************************************************************)
SpyMetrics == 1..Len(y_historic)
\* the databases that answer history requests
Databases == {"db-a", "db-b"}
NoDatabase == "None"

RECURSIVE Flags(_)
Flags(n) ==
    IF n = 0 THEN {<<>>}
    ELSE Flags(n - 1)
         \cup {Append(f, b) : f \in {f \in Flags(n - 1) : Len(f) = n - 1}, b \in BOOLEAN}

SpyStart ==
    /\ y_pc = "start"
    /\ y_format \in {"Json", "Pretty"}
    /\ y_historic \in Flags(MaxSpyMetrics)
    /\ y_index = 1
    /\ y_request = [m \in SpyMetrics |-> "none"]
    /\ y_response = [m \in SpyMetrics |-> "none"]
    /\ y_sender = [m \in SpyMetrics |-> NoDatabase]
    /\ y_data_locations = <<>>
    /\ y_results = [m \in {} |-> NoDatabase]
    /\ y_echo = <<>>
    /\ y_stops = 0

\* the queue is made, connect() and get_metrics() return
MetricQSpy_spy ==
    /\ y_pc = "start"
    /\ y_pc' = "loop"
    /\ UNCHANGED <<notSpy, y_format, y_historic, y_index, y_request, y_response, y_sender,
                   y_data_locations, y_results, y_echo, y_stops>>

\* the end of one iteration: the line of the metric in Pretty mode, its entry
\* of results in Json mode
spy_report(metric, database) ==
    /\ IF y_format = "Pretty"
       THEN /\ y_echo' = Append(y_echo, [metric |-> metric, stored_on |-> database])
            /\ UNCHANGED y_results
       ELSE /\ y_results' = [m \in DOMAIN y_results \cup {metric} |->
                                IF m = metric THEN database ELSE y_results[m]]
            /\ UNCHANGED y_echo
    /\ y_index' = y_index + 1
    /\ y_pc' = "loop"

\* a metric that is not historic: no request
spy_not_historic ==
    /\ y_pc = "loop"
    /\ y_index \in SpyMetrics
    /\ ~y_historic[y_index]
    /\ spy_report(y_index, NoDatabase)
    /\ UNCHANGED <<notSpy, y_format, y_historic, y_request, y_response, y_sender,
                   y_data_locations, y_stops>>

\* history_data_request: the request is sent and its future awaited for 5 s;
\* some database may answer it
spy_history_data_request ==
    /\ y_pc = "loop"
    /\ y_index \in SpyMetrics
    /\ y_historic[y_index]
    /\ y_request' = [y_request EXCEPT ![y_index] = "pending"]
    /\ \E database \in Databases :
          y_sender' = [y_sender EXCEPT ![y_index] = database]
    /\ y_response' = [y_response EXCEPT ![y_index] = "in flight"]
    /\ y_pc' = "awaiting"
    /\ UNCHANGED <<notSpy, y_format, y_historic, y_index, y_data_locations, y_results,
                   y_echo, y_stops>>

\* _on_history_response: the sender is queued, then the handler of the base
\* class completes the future of the request if the request is still awaited
MetricQSpy_on_history_response(metric) ==
    /\ y_response[metric] = "in flight"
    /\ y_response' = [y_response EXCEPT ![metric] = "delivered"]
    /\ y_data_locations' = Append(y_data_locations, y_sender[metric])
    /\ y_request' = IF y_request[metric] = "pending"
                    THEN [y_request EXCEPT ![metric] = "answered"]
                    ELSE y_request
    /\ UNCHANGED <<notSpy, y_pc, y_format, y_historic, y_index, y_sender, y_results,
                   y_echo, y_stops>>

\* the 5 s pass without a response: the TimeoutError is suppressed, database
\* stays None
spy_timeout ==
    /\ y_pc = "awaiting"
    /\ y_request[y_index] = "pending"
    /\ y_request' = [y_request EXCEPT ![y_index] = "timed out"]
    /\ spy_report(y_index, NoDatabase)
    /\ UNCHANGED <<notSpy, y_format, y_historic, y_response, y_sender, y_data_locations,
                   y_stops>>

\* the request returns: database = await self._data_locations.get()
spy_data_locations_get ==
    /\ y_pc = "awaiting"
    /\ y_request[y_index] = "answered"
    /\ y_data_locations # <<>>
    /\ y_data_locations' = Tail(y_data_locations)
    /\ spy_report(y_index, Head(y_data_locations))
    /\ UNCHANGED <<notSpy, y_format, y_historic, y_request, y_response, y_sender, y_stops>>

\* after the loop: the document of Json mode, then stop()
spy_ends ==
    /\ y_pc = "loop"
    /\ y_index > Len(y_historic)
    /\ y_echo' = IF y_format = "Json" THEN Append(y_echo, [json |-> y_results]) ELSE y_echo
    /\ y_stops' = y_stops + 1
    /\ y_pc' = "done"
    /\ UNCHANGED <<notSpy, y_format, y_historic, y_index, y_request, y_response, y_sender,
                   y_data_locations, y_results>>

SpyStep ==
    \/ MetricQSpy_spy
    \/ spy_not_historic
    \/ spy_history_data_request
    \/ \E metric \in SpyMetrics : MetricQSpy_on_history_response(metric)
    \/ spy_timeout
    \/ spy_data_locations_get
    \/ spy_ends

(***************************************************************************)
(* The requests of check_for_dead over arbitrary metadata                  *)
(* (src/metricq_tools/check.py, lines 56 to 86).                           *)
(***************************************************************************)
\* the values a metric may have under "rate" and under "interval"
RateValues == {Number(-1), Number(0), Number(1), DurationString(1), OtherValue}
IntervalValues == {Number(-2), Number(10), DurationString(10), BadString, OtherValue}

\* the metadata dictionaries: with or without either key
MetadataDicts ==
    {[unit |-> Number(0)]}
    \cup {[rate |-> r] : r \in RateValues}
    \cup {[interval |-> i] : i \in IntervalValues}
    \cup {[rate |-> r, interval |-> i] : r \in RateValues, i \in IntervalValues}

RECURSIVE MetadataLists(_)
MetadataLists(n) ==
    IF n = 0 THEN {<<>>}
    ELSE MetadataLists(n - 1)
         \cup {Append(l, d) : l \in {l \in MetadataLists(n - 1) : Len(l) = n - 1},
                              d \in MetadataDicts}

AgeStart ==
    /\ a_pc = "build"
    /\ a_metadata \in MetadataLists(MaxAgeMetrics)
    /\ a_allowed = <<>>
    /\ a_raised = "none"

\* requests = [check_metric(metric, compute_allowed_age(metadata)) for ...]:
\* the first exception of compute_allowed_age leaves the comprehension and
\* check_for_dead, before any request is started
check_for_dead_build_requests ==
    /\ a_pc = "build"
    /\ LET ages == [m \in 1..Len(a_metadata) |-> compute_allowed_age(a_metadata[m])]
           failing == {m \in 1..Len(a_metadata) : ages[m].raised # "none"}
       IN  IF failing = {}
           THEN /\ a_allowed' = [m \in 1..Len(a_metadata) |-> ages[m].tolerance]
                /\ a_raised' = "none"
                /\ a_pc' = "started"
           ELSE /\ a_allowed' = <<>>
                /\ a_raised' = ages[CHOOSE m \in failing : \A k \in failing : m <= k].raised
                /\ a_pc' = "raised"
    /\ UNCHANGED <<notAge, a_metadata>>

AgeStep == check_for_dead_build_requests

(***************************************************************************)
(* slurm (src/metricq_tools/slurm.py).  A float is a number, NaN or an     *)
(* infinity; the numbers of the model are integers.                        *)
(***************************************************************************)
Num(x) == [kind |-> "num", value |-> x]
NaN == [kind |-> "nan", value |-> 0]
Inf == [kind |-> "inf", value |-> 0]
MinusInf == [kind |-> "-inf", value |-> 0]

\* math.isnan
isnan(x) == x.kind = "nan"

\* float addition
FloatAdd(x, y) ==
    IF isnan(x) \/ isnan(y) THEN NaN
    ELSE IF x.kind = "num" /\ y.kind = "num" THEN Num(x.value + y.value)
    ELSE IF x.kind = "num" THEN y
    ELSE IF y.kind = "num" THEN x
    ELSE IF x.kind = y.kind THEN x
    ELSE NaN

\* sum(values): from 0, left to right
RECURSIVE FloatSumFrom(_, _)
FloatSumFrom(start, floats) ==
    IF floats = <<>> THEN start
    ELSE FloatSumFrom(FloatAdd(start, Head(floats)), Tail(floats))

sum(floats) == FloatSumFrom(Num(0), floats)

\* the aggregates a database returns: without data points, or with some and
\* an integral
TimeAggregate(count, integral_s) == [count |-> count, integral_s |-> integral_s]
NoAggregate == TimeAggregate(-1, NaN)
Aggregates ==
    {TimeAggregate(0, Num(0))}
    \cup {TimeAggregate(3, i) : i \in {Num(5), NaN, Inf, MinusInf}}

\* mutant: the integral is returned whatever the count
check_energy_unchecked(aggregate) == aggregate.integral_s

\* _check_energy (the warnings go to the log and are not kept)
check_energy(aggregate) ==
    IF aggregate.count = 0 THEN NaN ELSE aggregate.integral_s

\* SlurmJobEntry.__init__: the row of sacct, parsed. step: the ending of the
\* job id; hosts: the number of hosts of the host list
SlurmJobEntry(step, start, end, hosts) ==
    [step |-> step, start |-> start, end |-> end, hosts |-> hosts]

SlurmJobEntries ==
    {SlurmJobEntry(step, times[1], times[2], hosts) :
        step \in {"", ".extern", ".batch"},
        times \in {<<"set", "set">>, <<"set", "None">>, <<"None", "None">>},
        hosts \in 0..MaxHosts}

RECURSIVE JobLists(_)
JobLists(n) ==
    IF n = 0 THEN {<<>>}
    ELSE JobLists(n - 1)
         \cup {Append(l, j) : l \in {l \in JobLists(n - 1) : Len(l) = n - 1},
                              j \in SlurmJobEntries}

SlurmJobs == 1..Len(l_jobs)

SlurmStart ==
    /\ l_pc = "start"
    /\ l_jobs \in JobLists(MaxJobs)
    /\ l_task = [j \in SlurmJobs |-> "new"]
    /\ l_results = [j \in SlurmJobs |-> [h \in 1..l_jobs[j].hosts |-> NoAggregate]]
    /\ l_energy = [j \in SlurmJobs |-> NaN]
    /\ l_table = <<>>
    /\ l_raised = "none"

\* get_slurm_data returned, the client is connected, gather() has made a task
\* of every collect_energy
slurm_energy ==
    /\ l_pc = "start"
    /\ l_pc' = "gather"
    /\ UNCHANGED <<notSlurm, l_jobs, l_task, l_results, l_energy, l_table, l_raised>>

\* collect_energy up to its await: the three early returns, else one
\* history_aggregate per host
SlurmJobEntry_collect_energy(j) ==
    /\ l_pc = "gather"
    /\ l_task[j] = "new"
    /\ l_task' = [l_task EXCEPT ![j] =
                    IF l_jobs[j].step \in {".extern", ".batch"} THEN "done"
                    ELSE IF l_jobs[j].hosts = 0 THEN "done"
                    ELSE IF l_jobs[j].start = "None" \/ l_jobs[j].end = "None" THEN "done"
                    ELSE "waiting"]
    /\ UNCHANGED <<notSlurm, l_pc, l_jobs, l_results, l_energy, l_table, l_raised>>

\* history_aggregate of one host returns
history_aggregate_returns(j, host) ==
    /\ l_pc = "gather"
    /\ l_task[j] = "waiting"
    /\ l_results[j][host] = NoAggregate
    /\ \E aggregate \in Aggregates :
          l_results' = [l_results EXCEPT ![j][host] = aggregate]
    /\ UNCHANGED <<notSlurm, l_pc, l_jobs, l_task, l_energy, l_table, l_raised>>

\* history_aggregate of one host raises: the exception leaves both gather()
\* and slurm_energy(), no table is printed
history_aggregate_fails(j, host) ==
    /\ l_pc = "gather"
    /\ l_task[j] = "waiting"
    /\ l_results[j][host] = NoAggregate
    /\ l_raised' = "HistoryError"
    /\ l_pc' = "raised"
    /\ UNCHANGED <<notSlurm, l_jobs, l_task, l_results, l_energy, l_table>>

\* the inner gather() of a job is complete: the energy is the sum
SlurmJobEntry_collect_energy_sum(j) ==
    /\ l_pc = "gather"
    /\ l_task[j] = "waiting"
    /\ \A host \in 1..l_jobs[j].hosts : l_results[j][host] # NoAggregate
    /\ LET energy_values == [host \in 1..l_jobs[j].hosts |-> check_energy(l_results[j][host])]
       IN  l_energy' = [l_energy EXCEPT ![j] = sum(energy_values)]
    /\ l_task' = [l_task EXCEPT ![j] = "done"]
    /\ UNCHANGED <<notSlurm, l_pc, l_jobs, l_results, l_table, l_raised>>

\* the outer gather() is complete: the table of the jobs whose energy is not NaN
slurm_energy_print ==
    /\ l_pc = "gather"
    /\ \A j \in SlurmJobs : l_task[j] = "done"
    /\ l_table' = SelectSeq([j \in SlurmJobs |-> j], LAMBDA j : ~isnan(l_energy[j]))
    /\ l_pc' = "printed"
    /\ UNCHANGED <<notSlurm, l_jobs, l_task, l_results, l_energy, l_raised>>

SlurmStep ==
    \/ slurm_energy
    \/ \E j \in SlurmJobs : SlurmJobEntry_collect_energy(j)
    \/ \E j \in SlurmJobs : \E host \in 1..l_jobs[j].hosts : history_aggregate_returns(j, host)
    \/ \E j \in SlurmJobs : \E host \in 1..l_jobs[j].hosts : history_aggregate_fails(j, host)
    \/ \E j \in SlurmJobs : SlurmJobEntry_collect_energy_sum(j)
    \/ slurm_energy_print

(***************************************************************************)
(* The specifications: each tool is a program of its own.                  *)
(***************************************************************************)
\* the tool that is not run
CheckIdle ==
    /\ infinite = FALSE
    /\ dead = FALSE
    /\ CheckStart

DiscoverIdle ==
    /\ ignored_events = {}
    /\ timeout = "None"
    /\ format = "Pretty"
    /\ diff = FALSE
    /\ DiscoverStart

InspectIdle ==
    /\ options = [intervals_histogram |-> TRUE, values_histogram |-> TRUE,
                  chunk_sizes_histogram |-> FALSE, print_data |-> FALSE]
    /\ InspectStart

SummaryIdle ==
    /\ s_metrics = {1}
    /\ s_options = [intervals_histogram |-> TRUE, values_histogram |-> TRUE,
                    chunk_sizes_histogram |-> FALSE, print_data |-> FALSE,
                    print_stats |-> TRUE]
    /\ SummaryStart

EnergyIdle ==
    /\ unit = ""
    /\ EnergyStart

ParamIdle ==
    /\ p_pc = "idle"
    /\ p_param = "none"
    /\ p_enum = {}
    /\ p_value = None
    /\ p_result = NotCalled

SpyIdle ==
    /\ y_pc = "start"
    /\ y_format = "Pretty"
    /\ y_historic = <<>>
    /\ y_index = 1
    /\ y_request = <<>>
    /\ y_response = <<>>
    /\ y_sender = <<>>
    /\ y_data_locations = <<>>
    /\ y_results = <<>>
    /\ y_echo = <<>>
    /\ y_stops = 0

AgeIdle ==
    /\ a_pc = "build"
    /\ a_metadata = <<>>
    /\ a_allowed = <<>>
    /\ a_raised = "none"

SlurmIdle ==
    /\ l_pc = "start"
    /\ l_jobs = <<>>
    /\ l_task = <<>>
    /\ l_results = <<>>
    /\ l_energy = <<>>
    /\ l_table = <<>>
    /\ l_raised = "none"

CheckInit == CheckStart /\ DiscoverIdle /\ InspectIdle /\ SummaryIdle /\ EnergyIdle /\ ParamIdle /\ SpyIdle /\ AgeIdle /\ SlurmIdle
CheckNext == CheckStep
CheckSpec == CheckInit /\ [][CheckNext]_vars

DiscoverInit == DiscoverStart /\ CheckIdle /\ InspectIdle /\ SummaryIdle /\ EnergyIdle /\ ParamIdle /\ SpyIdle /\ AgeIdle /\ SlurmIdle
DiscoverNext == DiscoverStep
DiscoverSpec == DiscoverInit /\ [][DiscoverNext]_vars

InspectInit == InspectStart /\ CheckIdle /\ DiscoverIdle /\ SummaryIdle /\ EnergyIdle /\ ParamIdle /\ SpyIdle /\ AgeIdle /\ SlurmIdle
InspectNext == InspectStep
InspectSpec == InspectInit /\ [][InspectNext]_vars
InspectFaultNext == InspectNext \/ InspectFaults
InspectFaultSpec == InspectInit /\ [][InspectFaultNext]_vars

SummaryInit == SummaryStart /\ CheckIdle /\ DiscoverIdle /\ InspectIdle /\ EnergyIdle /\ ParamIdle /\ SpyIdle /\ AgeIdle /\ SlurmIdle
SummaryNext == SummaryStep
SummarySpec == SummaryInit /\ [][SummaryNext]_vars

EnergyInit == EnergyStart /\ CheckIdle /\ DiscoverIdle /\ InspectIdle /\ SummaryIdle /\ ParamIdle /\ SpyIdle /\ AgeIdle /\ SlurmIdle
EnergyNext == EnergyStep
EnergySpec == EnergyInit /\ [][EnergyNext]_vars

ParamInit ==
    ParamStart /\ CheckIdle /\ DiscoverIdle /\ InspectIdle /\ SummaryIdle /\ EnergyIdle /\ SpyIdle /\ AgeIdle /\ SlurmIdle
ParamNext == ParamStep
ParamSpec == ParamInit /\ [][ParamNext]_vars

SpyInit ==
    SpyStart /\ CheckIdle /\ DiscoverIdle /\ InspectIdle /\ SummaryIdle /\ EnergyIdle /\ ParamIdle /\ AgeIdle /\ SlurmIdle
SpyNext == SpyStep
SpySpec == SpyInit /\ [][SpyNext]_vars

AgeInit ==
    AgeStart /\ CheckIdle /\ DiscoverIdle /\ InspectIdle /\ SummaryIdle /\ EnergyIdle /\ ParamIdle /\ SpyIdle /\ SlurmIdle
AgeNext == AgeStep
AgeSpec == AgeInit /\ [][AgeNext]_vars

SlurmInit ==
    SlurmStart /\ CheckIdle /\ DiscoverIdle /\ InspectIdle /\ SummaryIdle /\ EnergyIdle /\ ParamIdle /\ SpyIdle /\ AgeIdle
SlurmNext == SlurmStep
SlurmSpec == SlurmInit /\ [][SlurmNext]_vars

\* the event loop runs every task that is ready, and every request ends: by its
\* response or by its timeout
CheckFairSpec == CheckSpec /\ WF_vars(CheckNext)

\* discover with the failures of its environment: an unreadable snapshot, a
\* failing output
DiscoverFaultNext == DiscoverNext \/ DiscoverFaults
DiscoverFaultSpec == DiscoverInit /\ [][DiscoverFaultNext]_vars

\* the event loop runs every task that is ready and every timer that is due
DiscoverFairSpec ==
    /\ DiscoverSpec
    /\ WF_vars(MetricQDiscover_discover)
    /\ WF_vars(responses_start)
    /\ WF_vars(responses_resume)
    /\ WF_vars(timer_fires)
    /\ WF_vars(stop_returns)

(***************************************************************************)
(* Properties of the fan-out of check.                                     *)
(***************************************************************************)
InDead == pc \in {"dead_loop", "dead_report"}
InInfinite == pc \in {"inf_loop", "inf_report"}
InFanOut == InDead \/ InInfinite
\* the as_completed loop has returned and the report has not been made yet
Returned == pc \in {"dead_report", "inf_report"}
Settled == {m \in metrics : task[m] = "done"}
Keys == {o.metric : o \in OutcomeSet}
\* the outcomes that leave an entry in a collection of the running fan-out
RecordedKinds ==
    IF InDead THEN {"dead", "no_value", "timeout", "error"} ELSE {"non_finite"}
\* how many entries the collections of check_for_dead hold for m
NumEntries(m) ==
    Cardinality({i \in 1..Len(dead_metrics) : dead_metrics[i][3] = m})
    + (IF m \in no_value_metrics THEN 1 ELSE 0)
    + (IF m \in timeout_metrics THEN 1 ELSE 0)
    + (IF m \in error_metrics THEN 1 ELSE 0)
IsPrefix(s, t) == Len(s) <= Len(t) /\ SubSeq(t, 1, Len(s)) = s

C4_TimeoutOnlyAfterTimeout ==
    /\ [](\A m \in metrics :
            InDead => (m \in timeout_metrics <=> outcome[m].kind = "timeout"))
    /\ [](\A m \in metrics :
            (pc = "dead_loop" /\ task[m] = "pending" /\ IOReady
                /\ now - startedAt[m] >= _TIMEOUT) =>
                ENABLED check_metric_timeout(m))
    /\ [][\A m \in Metrics :
            (outcome[m].kind # "timeout" /\ outcome'[m].kind = "timeout") =>
                /\ task[m] = "pending"
                /\ now - startedAt[m] >= _TIMEOUT]_vars

\* one request timed out, the other answered in time
C4_Witness ==
    /\ pc = "dead_report"
    /\ \E m, k \in metrics :
        /\ m \in timeout_metrics
        /\ outcome[k].kind = "alive"
        /\ k \notin timeout_metrics

\* C5: in check_for_dead no metric ever has more than one entry in dead_metrics,
\* no_value_metrics, timeout_metrics and error_metrics together, a metric has no
\* entry before its request has settled, and while the function runs an outcome
\* once taken and an entry once made stay as they are.
C5_OneOutcomePerMetric ==
    /\ [](InDead =>
            \A m \in metrics :
                /\ NumEntries(m) <= 1
                /\ task[m] # "done" => (NumEntries(m) = 0 /\ outcome[m] = NoOutcome)
                /\ task[m] = "done" => outcome[m] # NoOutcome)
    /\ [][(InDead /\ InDead') =>
            /\ \A m \in metrics : outcome[m] # NoOutcome => outcome'[m] = outcome[m]
            /\ IsPrefix(dead_metrics, dead_metrics')
            /\ no_value_metrics \subseteq no_value_metrics'
            /\ timeout_metrics \subseteq timeout_metrics'
            /\ error_metrics \subseteq error_metrics']_vars

\* both metrics are recorded, in different collections
C5_Witness ==
    /\ pc = "dead_loop"
    /\ \E m, k \in metrics :
        /\ m \in no_value_metrics
        /\ k \in error_metrics
        /\ NumEntries(m) = 1
        /\ NumEntries(k) = 1

\* C6: the bar stands at the number of finished requests the loop has taken from
\* as_completed, whatever their outcome: never more than the number of settled
\* requests, N when the loop has returned, and it moves by one step at a time.
C6_ProgressOncePerMetric ==
    /\ [](InFanOut =>
            /\ bar = Cardinality(Settled) - Len(done)
            /\ bar <= Cardinality(Settled)
            /\ Returned => bar = Cardinality(metrics))
    /\ [][((InDead /\ InDead') \/ (InInfinite /\ InInfinite')) =>
            (bar' = bar \/ bar' = bar + 1)]_vars

\* the bar is full after a timeout and an error
C6_Witness ==
    /\ pc = "dead_report"
    /\ bar = 2
    /\ timeout_metrics # {}
    /\ error_metrics # {}

\* C7: when the loop has returned every request has settled and has been taken
\* by the loop, and nothing of a fan-out's report is printed while its loop runs.
C7_ReturnsAfterAllSettled ==
    /\ Returned =>
        /\ Settled = metrics
        /\ done = <<>>
        /\ bar = Cardinality(metrics)
    /\ pc = "inf_loop" => echo = <<>>
    /\ pc = "dead_loop" =>
        \A i \in 1..Len(echo) : echo[i].group = "non_finite"

\* the loop returned after a timeout and a request that timed out no earlier
C7_Witness ==
    /\ pc = "dead_report"
    /\ Cardinality(metrics) = 2
    /\ \E m \in metrics : m \in timeout_metrics
    /\ \E k \in metrics : outcome[k].kind = "negative"

\* C8: while the loop runs, a finished request waiting in as_completed's queue
\* can be taken (and the bar advanced) whatever the other requests do, a settled
\* request is recorded already, and a pending request whose timeout has passed
\* can time out whatever the others do.
C8_NoWaitingForOthers ==
    /\ (pc = "dead_loop" /\ done # <<>>) => ENABLED check_for_dead_loop
    /\ (pc = "inf_loop" /\ done # <<>>) => ENABLED check_for_infinite_loop
    /\ InFanOut =>
          \A m \in Settled : outcome[m].kind \in RecordedKinds => m \in Keys
    /\ \A m \in metrics :
          (pc = "dead_loop" /\ task[m] = "pending" /\ IOReady
                /\ now - startedAt[m] >= _TIMEOUT) =>
            ENABLED check_metric_timeout(m)

\* metric 2 is recorded and reported while metric 1, earlier in the input, is pending
C8_Witness ==
    /\ pc = "dead_loop"
    /\ task[1] = "pending"
    /\ task[2] = "done"
    /\ 2 \in Keys
    /\ bar = 1
    /\ done = <<>>

\* C9: no request has settled, and the loop has taken none, before every request
\* of the fan-out has been started.
C9_AllStartedFirst ==
    InFanOut =>
        ((Settled # {} \/ bar > 0) => \A m \in metrics : task[m] # "scheduled")

\* every request of the largest fan-out is pending at once
C9_Witness ==
    /\ InFanOut
    /\ metrics = Metrics
    /\ \A m \in metrics : task[m] = "pending"

\* the metrics whose request gave a value with a timestamp
WithTimestamp == {m \in metrics : result[m].timestamp # NoTimestamp}
\* the entry check_metric makes for m when its response is handled at clock
DeadEntriesAt(clock) ==
    {<<clock[m] - result[m].timestamp, result[m].timestamp, m>> :
        m \in {k \in WithTimestamp :
                 clock[k] - result[k].timestamp > compute_allowed_age(Metadata(k)).tolerance}}

\* C13 as stated: the contents of the collections of check_for_dead follow from
\* the results of the requests alone and are the same for every interleaving:
\* they are those of the run in which every response arrives at once, at the
\* clock at which the requests were sent.
C13_SameContentsForEveryInterleaving ==
    pc = "dead_report" =>
        /\ Range(dead_metrics) = DeadEntriesAt([m \in Metrics |-> result[m].requested])
        /\ no_value_metrics = {m \in metrics : outcome[m].kind = "no_value"}
        /\ timeout_metrics = {m \in metrics : outcome[m].kind = "timeout"}
        /\ error_metrics = {m \in metrics : outcome[m].kind = "error"}

\* C13 amended: the sets of metrics without a value, with a timeout and with an
\* error follow from the results alone, in every completion order; the entries
\* of dead_metrics follow from the results together with the clock at which
\* each response was handled (the age is taken then), each metric at most once,
\* in whatever order the requests completed.
C13_ContentsFollowResultsAndClock ==
    pc = "dead_report" =>
        /\ Range(dead_metrics) = DeadEntriesAt([m \in Metrics |-> result[m].at])
        /\ Len(dead_metrics) = Cardinality(Range(dead_metrics))
        /\ no_value_metrics = {m \in metrics : outcome[m].kind = "no_value"}
        /\ timeout_metrics = {m \in metrics : outcome[m].kind = "timeout"}
        /\ error_metrics = {m \in metrics : outcome[m].kind = "error"}
        /\ \A m \in metrics : result[m].requested <= result[m].at

\* two dead metrics, the later in the input recorded first, the other with an age
\* taken a tick after its request was sent
C13_Witness ==
    /\ pc = "dead_report"
    /\ Len(dead_metrics) = 2
    /\ dead_metrics[1][3] > dead_metrics[2][3]
    /\ \E m \in metrics : result[m].at > result[m].requested

\* C14: when connecting or the lookup has failed, the failure has left check()
\* at once: no request was made or started, the bar has not moved, nothing was
\* printed, and nothing follows.
C14_LookupFailureUnwinds ==
    raised = "lookup failed" =>
        /\ pc = "exit"
        /\ metrics = {}
        /\ \A m \in Metrics : task[m] = "none" /\ outcome[m] = NoOutcome
        /\ done = <<>>
        /\ bar = 0
        /\ OutcomeSet = {}
        /\ echo = <<>>
        /\ ~ENABLED CheckNext

\* the lookup failed in a run that had both checks to do
C14_Witness ==
    /\ raised = "lookup failed"
    /\ infinite
    /\ dead

\* the groups a report has printed
Groups == {echo[i].group : i \in 1..Len(echo)}

\* C15: no exception leaves main() other than a failure of the lookup; a report
\* leaves `raised` as it was whatever the collections hold; and a fan-out in which
\* a request has timed out or failed goes on to the end of the run with no
\* exception raised, as a run without such outcomes does.
C15_FailuresOnlyReported ==
    /\ [](raised \in {"none", "lookup failed"})
    /\ [][(pc \in {"dead_report", "inf_report"}) => (raised' = raised)]_vars
    /\ [](pc \in {"inf_loop", "inf_report", "dead_loop", "dead_report"} => raised = "none")
    /\ (InFanOut /\ \E m \in metrics : outcome[m].kind \in {"timeout", "error"})
            ~> (pc = "exit" /\ raised = "none")
    /\ InFanOut ~> (pc = "exit" /\ raised = "none")

\* a run has ended without an exception after it reported a timeout and an error
C15_Witness ==
    /\ pc = "exit"
    /\ raised = "none"
    /\ {"timeout", "error"} \subseteq Groups

\* the metrics of a group in the order they were printed: one line per metric
\* for the dead (timestamp, metric, age) and the non-finite, one line of all
\* metrics for the other groups
Rendered(group) ==
    LET lines == SelectSeq(echo, LAMBDA l : l.group = group)
    IN  IF group = "dead" THEN [i \in 1..Len(lines) |-> lines[i].items[2]]
        ELSE IF group = "non_finite" THEN [i \in 1..Len(lines) |-> lines[i].items[1]]
        ELSE IF lines = <<>> THEN <<>>
        ELSE lines[1].items
Ascending(s) == \A i, j \in 1..Len(s) : i < j => s[i] < s[j]
Descending(s) == \A i, j \in 1..Len(s) : i < j => s[i] > s[j]
AllGroups == {"dead", "no_value", "timeout", "error", "non_finite"}

\* C16 as stated: every group is printed in ascending order of the metric.
C16_EveryGroupAscendingByMetric ==
    \A group \in AllGroups : Ascending(Rendered(group))

\* C16 amended: the metrics without a value, with a timeout and with an error
\* are printed in ascending order of the metric; the dead metrics are printed
\* in ascending order of (age, timestamp, metric), youngest first; the metrics
\* with non-finite values in descending order of the metric.
C16_GroupsSortedByTheirKeys ==
    /\ \A group \in {"no_value", "timeout", "error"} : Ascending(Rendered(group))
    /\ Descending(Rendered("non_finite"))
    /\ LET lines == SelectSeq(echo, LAMBDA l : l.group = "dead")
       IN  \A i, j \in 1..Len(lines) :
             i < j => TupleLess(<<lines[i].items[3], lines[i].items[1], lines[i].items[2]>>,
                                <<lines[j].items[3], lines[j].items[1], lines[j].items[2]>>)

\* the report has printed metric 2 before metric 1 among the dead, metric 2
\* being the younger, and among the non-finite
C16_Witness ==
    /\ pc = "exit"
    /\ Rendered("dead") = <<2, 1>>
    /\ Rendered("non_finite") = <<2, 1>>

(***************************************************************************)
(* Properties of the response stream of discover.                          *)
(***************************************************************************)
StreamEnded == d_pc \in {"stopping", "stopped"} /\ d_raised # "connect failed"

\* C2: when the stream has ended, every response that on_discover queued before
\* the timer fired has been yielded.
C2_QueuedResponsesYielded ==
    StreamEnded => on_time \subseteq Range(yielded)

\* C10: the deadline raises neither a TimeoutError nor a CancelledError into
\* discover(); once the timer has fired the stream ends, and a discover with a
\* finite timeout that has sent its broadcast goes on to print its output (one
\* document in the Json and diff modes), stops the client once and returns.
C10_DeadlineEndsStreamNormally ==
    /\ [](d_raised \notin {"TimeoutError", "CancelledError"})
    /\ [](timer = "fired" => d_pc \in {"iterating", "stopping", "stopped"})
    /\ (timer = "fired") ~> StreamEnded
    /\ (d_pc = "broadcast" /\ timeout = "finite") ~>
            (/\ d_pc = "stopped"
             /\ timer = "fired"
             /\ stops = 1
             /\ d_raised = "none"
             /\ (diff \/ format = "Json") => Len(printed) = 1)

\* the deadline ended a stream that had yielded every response of the bound
C10_Witness ==
    /\ d_pc = "stopped"
    /\ timer = "fired"
    /\ d_raised = "none"
    /\ Len(yielded) = MaxResponses

\* C11: when the stream has ended, what responses() yielded is exactly what
\* on_discover queued before the timer fired: nothing that came later, and
\* nothing of it missing.
C11_CollectedExactlyOnTime ==
    StreamEnded => Range(yielded) = on_time

\* the half of C11 that the code keeps: a response on_discover is called with
\* after the timer has fired is never yielded and never printed
C11_LateNeverYielded ==
    /\ Range(yielded) \subseteq on_time
    /\ \A i \in 1..Len(printed) :
          IF "from_token" \in DOMAIN printed[i] THEN printed[i] \in on_time
          ELSE TRUE

(***************************************************************************)
(* Properties of the accumulator of inspect.                               *)
(***************************************************************************)
\* C12: after k >= 1 data points the sink holds k values and k - 1 intervals,
\* the i-th interval being the difference of the timestamps i + 1 and i: the
\* first data point adds no interval, every later one adds one.
C12_GapsAreSuccessiveDifferences ==
    /\ Len(values) = Len(timestamps)
    /\ Len(timestamps) >= 1 =>
        /\ Len(intervals) = Len(timestamps) - 1
        /\ \A i \in 1..Len(intervals) : intervals[i] = timestamps[i + 1] - timestamps[i]

(***************************************************************************)
(* Properties of the summary tool.                                         *)
(***************************************************************************)
\* the statistics of a metric have been printed
StatisticsPrinted ==
    \E i \in 1..Len(s_echo) :
        /\ "metric" \in DOMAIN s_echo[i]
        /\ "text" \in DOMAIN s_echo[i] \/ "print" \in DOMAIN s_echo[i]

\* C17 as stated: the command is started only when the sink has subscribed, the
\* sink is stopped only when the command has exited, and the statistics are
\* printed only when the sink has been stopped.
C17_StoppedOnlyAfterCommand ==
    /\ s_proc # "none" => s_data # "no"
    /\ s_data = "closed" => s_proc = "exited"
    /\ s_stops > 0 => s_proc = "exited"
    /\ StatisticsPrinted => (s_pc = "done" /\ s_data = "closed")

\* C17 amended: the command is started only when the sink has subscribed; the
\* sink is stopped when the command has exited or, before that, by a signal
\* (on_signal), and connect() itself calls stop() only when the command has
\* exited; the statistics are printed only when the sink has been stopped, and
\* from then on no data point is accumulated.
C17_StoppedAfterCommandOrBySignal ==
    /\ [](s_proc # "none" => s_data # "no")
    /\ [](s_data = "closed" => (s_proc = "exited" \/ s_signalled))
    /\ [][(s_stops' > s_stops /\ s_signalled' = s_signalled) => s_proc = "exited"]_vars
    /\ [](s_pc \in {"print", "done"} => (s_data = "closed" /\ s_stops > 0 /\ s_proc = "exited"))
    /\ [](StatisticsPrinted => s_pc = "done")
    /\ [][(s_data = "closed") => (UNCHANGED accumulators /\ s_data' = "closed")]_vars

\* the statistics were printed, after the command ran to its end with no signal,
\* over data points received before and while it ran
C17_Witness ==
    /\ s_pc = "done"
    /\ ~s_signalled
    /\ s_stops = 1
    /\ StatisticsPrinted
    /\ \E m \in s_metrics : Len(s_values[m]) = MaxSummaryValues

(***************************************************************************)
(* Properties of the energy tool.                                          *)
(***************************************************************************)
\* the data points collect_data() has yielded whose timestamp lies in the
\* window, both ends included
Counted ==
    SelectSeq(e_seen, LAMBDA d : time_before <= d.timestamp /\ d.timestamp <= time_after)
RECURSIVE SumOfValues(_)
SumOfValues(points) ==
    IF points = <<>> THEN 0 ELSE Head(points).value + SumOfValues(Tail(points))
Reported(field) == {i \in 1..Len(e_echo) : field \in DOMAIN e_echo[i]}

\* C18: while the data points are collected the sum and the count are those of
\* the data points in the window, its ends included; the report prints the
\* count, and either nothing more, when the count is 0, or the mean sum / count
\* and the integral sum * duration / count = mean * duration, once each.
C18_IntegralIsMeanTimesRuntime ==
    /\ e_pc \in {"collecting", "done"} /\ e_raised = "none" =>
        /\ time_after > time_before
        /\ value_count = Len(Counted)
        /\ value_sum = SumOfValues(Counted)
    /\ e_pc # "done" => e_echo = <<>>
    /\ e_pc = "done" /\ e_raised = "none" =>
        /\ e_queue = <<>>
        /\ \E i \in Reported("values") : e_echo[i].values = Len(Counted)
        /\ IF Counted = <<>>
           THEN /\ Reported("mean") = {}
                /\ Reported("integral") = {}
                /\ "No data received" \in e_log
           ELSE /\ Cardinality(Reported("mean")) = 1
                /\ Cardinality(Reported("integral")) = 1
                /\ \A i \in Reported("mean") :
                     e_echo[i].mean = Quotient(SumOfValues(Counted), Len(Counted))
                /\ \A i \in Reported("integral") :
                     e_echo[i].integral =
                        Quotient(SumOfValues(Counted) * (time_after - time_before),
                                 Len(Counted))

\* the integral was reported over data points at both ends of the window, one
\* before it and none else
C18_Witness ==
    /\ e_pc = "done"
    /\ Reported("integral") # {}
    /\ Len(e_seen) = MaxEnergyValues
    /\ Len(Counted) = 2
    /\ \E i, j, k \in 1..Len(e_seen) :
        /\ e_seen[i].timestamp = time_before
        /\ e_seen[j].timestamp = time_after
        /\ e_seen[k].timestamp < time_before


(***************************************************************************)
(* The parameter types.                                                    *)
(***************************************************************************)
ChoiceConverted == p_pc = "converted" /\ p_param = "Choice"

\* C19 (as stated): for every enum and every member of it, ChoiceParam.convert
\* maps the kebab-case choice string of the member back to that member, and
\* returns a value that already is a member unchanged.
C19_RoundTripForEveryMember ==
    ChoiceConverted =>
        /\ \A name \in p_enum :
              p_value = Str(as_choice(name)) => p_result = Return(Member(name))
        /\ p_value.type = "member" => p_result = Return(p_value)

\* a name in the form kebabcase_to_camelcase produces: a lower-case letter
\* only directly after another letter
CamelCase(name) ==
    \A i \in 1..Len(name) : name[i] = "a" => (i > 1 /\ IsCased(name[i - 1]))

\* C19 (amended): the choice string of a member is mapped back to that member
\* exactly when the name of the member is in camel case (a lower-case letter
\* never first and never after a digit); for any other name the choice string
\* is refused or mapped to a different member.  A value that already is a
\* member is returned unchanged.
C19_RoundTripForCamelCaseNames ==
    ChoiceConverted =>
        /\ \A name \in p_enum :
              p_value = Str(as_choice(name)) =>
                  (p_result = Return(Member(name)) <=> CamelCase(name))
        /\ p_value.type = "member" => p_result = Return(p_value)

\* the analogue of 'bar-baz' -> BarBaz
C19_Witness ==
    /\ ChoiceConverted
    /\ p_enum = {<<"A">>, <<"A", "a", "A">>}
    /\ p_value = Str(<<"a", "a", "-", "a">>)
    /\ p_result = Return(Member(<<"A", "a", "A">>))

\* a string names a member when the two are equal up to case and hyphens
Names(text, name) == lower(SelectSeq(text, LAMBDA c : c # "-")) = lower(name)

DiffPrinted == diff /\ Len(printed) = 1 /\ "print_diff" \in DOMAIN printed[1]
DiffOutput == printed[1].print_diff

\* the tokens the output lists under a heading: the keys of the document in
\* Json mode, the bulleted lines in Pretty mode
Listed(key, bullet) ==
    IF format = "Json"
    THEN DOMAIN DiffOutput[1][key]
    ELSE {DiffOutput[i].client_token :
            i \in {j \in 1..Len(DiffOutput) :
                     "bullet" \in DOMAIN DiffOutput[j] /\ DiffOutput[j].bullet = bullet}}

ReportedMissing == Listed("missing", "-")
ReportedAdditional == Listed("additional", "+")

\* C21: print_diff reports as missing exactly the tokens of the previous
\* snapshot that are not in the current one, as additional exactly the tokens
\* of the current snapshot that are not in the previous one; the two sets are
\* disjoint and a token of both snapshots is in neither, whatever its responses.
C21_DiffIsTheTwoSetDifferences ==
    DiffPrinted =>
        /\ \A tok \in Tokens :
              /\ tok \in ReportedMissing <=>
                    (tok \in DOMAIN previous /\ tok \notin DOMAIN Collected)
              /\ tok \in ReportedAdditional <=>
                    (tok \notin DOMAIN previous /\ tok \in DOMAIN Collected)
              /\ (tok \in DOMAIN previous /\ tok \in DOMAIN Collected) =>
                    tok \notin ReportedMissing \cup ReportedAdditional
        /\ ReportedMissing \cap ReportedAdditional = {}
        /\ ReportedMissing \cup ReportedAdditional \subseteq Tokens

\* token 1 answered in both runs with different responses, token 2 is new
C21_Witness ==
    /\ DiffPrinted
    /\ format = "Pretty"
    /\ DOMAIN previous = {1}
    /\ DOMAIN Collected = {1, 2}
    /\ previous[1] # Collected[1]
    /\ ReportedAdditional = {2}
    /\ ReportedMissing = {}


(***************************************************************************)
(* Properties of spy.                                                      *)
(***************************************************************************)
\* the metric has its line (Pretty) or its entry of results (Json)
SpyReported(metric) ==
    IF y_format = "Pretty"
    THEN \E i \in 1..Len(y_echo) : y_echo[i].metric = metric
    ELSE metric \in DOMAIN y_results

\* the storage location reported for the metric
SpyLocation(metric) ==
    IF y_format = "Pretty"
    THEN y_echo[CHOOSE i \in 1..Len(y_echo) : y_echo[i].metric = metric].stored_on
    ELSE y_results[metric]

\* C22: the location reported for a historic metric is the sender of the
\* response to that metric's own request, and a metric whose request timed out
\* is reported as not stored on any database, for every interleaving.
C22_LocationIsOwnResponder ==
    \A metric \in SpyMetrics :
        SpyReported(metric) =>
            /\ y_request[metric] = "answered" => SpyLocation(metric) = y_sender[metric]
            /\ y_request[metric] = "timed out" => SpyLocation(metric) = NoDatabase

\* the half of C22 that the code keeps: a metric whose request timed out, or
\* that is not historic, is reported as not stored
C22_TimedOutIsNotStored ==
    \A metric \in SpyMetrics :
        (SpyReported(metric) /\ y_request[metric] \in {"timed out", "none"}) =>
            SpyLocation(metric) = NoDatabase


(***************************************************************************)
(* Properties of the output modes of discover.                             *)
(***************************************************************************)
Collecting == diff \/ format = "Json"
YieldedTokens == {yielded[i].from_token : i \in 1..Len(yielded)}

C24_StoppedOnceOnEveryExit ==
    /\ stops <= 1
    /\ d_pc \in {"stopping", "stopped"} <=> stops = 1
    /\ d_raised # "none" => d_pc \in {"stopping", "stopped"}

\* discover() re-raised the failure of json.load after the client was stopped
C24_Witness ==
    /\ d_pc = "stopped"
    /\ stops = 1
    /\ diff
    /\ d_raised = "JSONDecodeError"


(***************************************************************************)
(* Properties of compute_allowed_age.                                      *)
(***************************************************************************)
HasNumericRate(metadata) == "rate" \in DOMAIN metadata /\ metadata.rate.type = "number"

\* the tolerance the claim gives: 1 s + 1 / rate for a numeric rate, otherwise
\* 1 s + interval when there is an interval, otherwise 1 s
StatedAge(metadata) ==
    IF HasNumericRate(metadata) /\ metadata.rate.value # 0
    THEN 1 + (1 \div metadata.rate.value)
    ELSE IF "interval" \in DOMAIN metadata /\ metadata.interval.type \in {"number", "str"}
         THEN 1 + metadata.interval.value
         ELSE 1

\* C25: for every metadata the requests are built without an exception, each
\* with the tolerance the claim gives, which is at least 1 s.
C25_ToleranceAtLeastOneSecond ==
    a_pc # "build" =>
        /\ a_raised = "none"
        /\ a_pc = "started"
        /\ \A m \in 1..Len(a_metadata) :
              /\ a_allowed[m] >= 1
              /\ a_allowed[m] = StatedAge(a_metadata[m])

\* what the code keeps: with a positive numeric rate, or without a rate and
\* with no interval or a non-negative interval that is a number or a duration
\* string, the tolerance is the stated one and at least 1 s
WellFormedMetadata(metadata) ==
    IF "rate" \in DOMAIN metadata
    THEN metadata.rate.type = "number" /\ metadata.rate.value > 0
    ELSE "interval" \in DOMAIN metadata =>
            (metadata.interval.type \in {"number", "str"} /\ metadata.interval.value >= 0)

C25_WellFormedMetadataGetStatedAge ==
    (a_pc # "build" /\ \A m \in 1..Len(a_metadata) : WellFormedMetadata(a_metadata[m])) =>
        /\ a_pc = "started"
        /\ \A m \in 1..Len(a_metadata) :
              a_allowed[m] >= 1 /\ a_allowed[m] = StatedAge(a_metadata[m])


(***************************************************************************)
(* Properties of the order of the two checks.                              *)
(***************************************************************************)
InfinitePhase == pc \in {"inf_requests", "inf_loop", "inf_report"}
DeadPhase == pc \in {"dead_requests", "dead_loop", "dead_report"}

\* C26: the metric list is fetched once and not changed afterwards; the check
\* for dead metrics begins only from the lookup (no --infinite) or from the
\* end of the check for non-finite values, when every request of that check
\* has settled and been taken by the loop and its report is printed in that
\* step; requests are started only inside the loop of the running check; with
\* neither flag main() returns without lookup or request.
C26_InfiniteThenDead ==
    [][/\ (DeadPhase' /\ ~DeadPhase) =>
             /\ dead
             /\ IF infinite
                THEN /\ pc = "inf_report"
                     /\ \A m \in metrics : task[m] = "done"
                     /\ done = <<>>
                     /\ bar = Cardinality(metrics)
                     /\ Len(echo') = Len(echo) + Cardinality(bad_metrics)
                ELSE pc = "lookup"
       /\ (InfinitePhase' /\ ~InfinitePhase) => (infinite /\ pc = "lookup")
       /\ pc' = "lookup" => pc \in {"main", "lookup"}
       /\ metrics' # metrics => pc = "lookup"
       /\ (\E m \in Metrics : task[m] # "pending" /\ task'[m] = "pending") =>
             (pc \in {"inf_loop", "dead_loop"} /\ pc' = pc)
       /\ ~(infinite \/ dead) =>
             /\ pc' \in {"main", "exit"}
             /\ metrics' = {}
             /\ \A m \in Metrics : task'[m] = "none"
      ]_vars

\* both flags: a request of the check for dead metrics is pending after the
\* report of the check for non-finite values was printed
C26_Witness ==
    /\ infinite /\ dead
    /\ pc = "dead_loop"
    /\ Cardinality(metrics) = 2
    /\ \E m \in metrics : task[m] = "pending"
    /\ Len(echo) = 2
    /\ \A i \in 1..Len(echo) : echo[i].group = "non_finite"


(***************************************************************************)
(* Properties of the table of slurm.                                       *)
(***************************************************************************)
InTable(j) == \E i \in 1..Len(l_table) : l_table[i] = j
Hosts(j) == 1..l_jobs[j].hosts

\* no step, a host list, both times
Eligible(j) ==
    /\ l_jobs[j].step = ""
    /\ l_jobs[j].hosts > 0
    /\ l_jobs[j].start # "None" /\ l_jobs[j].end # "None"

EveryHostHasData(j) == \A host \in Hosts(j) : l_results[j][host].count >= 1
Integrals(j) == {l_results[j][host].integral_s : host \in Hosts(j)}

\* the sum of integrals that all are numbers
RECURSIVE NumberSum(_, _)
NumberSum(j, hosts) ==
    IF hosts = {} THEN 0
    ELSE LET host == CHOOSE h \in hosts : TRUE
         IN  l_results[j][host].integral_s.value + NumberSum(j, hosts \ {host})

Accumulator == <<tokens, chunk_sizes, timestamps, intervals, values, last_timestamp>>
WarnedNoRoutingKey ==
    \E e \in i_log' \ i_log : e.level = "warning"

\* C28 (as stated, the sum): the sum of the counters of the senders equals
\* the number of recorded chunk sizes.
C28_CountersSumToChunkSizes ==
    CounterSum(tokens, DOMAIN tokens) = Len(chunk_sizes)

\* C28 (the frame): a data message without routing key leaves the
\* accumulator unchanged, and no step records a chunk size without counting
\* exactly one sender once.
C28_NoRoutingKeyLeavesAccumulator ==
    [][/\ (WarnedNoRoutingKey) => (UNCHANGED Accumulator)
       /\ (chunk_sizes' # chunk_sizes) =>
             (/\ Len(chunk_sizes') = Len(chunk_sizes) + 1
              /\ CounterSum(tokens', DOMAIN tokens') = CounterSum(tokens, DOMAIN tokens) + 1)]_vars

\* a sender was counted for a message that recorded no chunk size
C28_CountedWithoutChunkSize ==
    /\ CounterSum(tokens, DOMAIN tokens) = 2
    /\ Len(chunk_sizes) = 1


(***************************************************************************)
(* Properties of the histograms of inspect.                                *)
(***************************************************************************)
\* C29 (as stated): the histogram of the intervals is printed only when at
\* least one interval has been recorded, never over an empty list.
C29_NoIntervalHistogramOfNoIntervals ==
    \A i \in 1..Len(i_echo) : i_echo[i] # Histogram("intervals", <<>>)

\* C29 (what holds): after no value at all no histogram of the intervals is
\* printed, and a printed one is of the recorded intervals.
C29_NoIntervalHistogramWithoutValues ==
    \A i \in 1..Len(i_echo) :
        ("histogram" \in DOMAIN i_echo[i] /\ i_echo[i].histogram = "intervals") =>
            /\ values # <<>>
            /\ i_echo[i].data = intervals

\* the histogram of the intervals was printed after exactly one value
C29_EmptyIntervalHistogramPrinted ==
    /\ i_pc = "stopped"
    /\ Len(values) = 1
    /\ intervals = <<>>
    /\ \E i \in 1..Len(i_echo) : i_echo[i] = Histogram("intervals", <<>>)

====
